---- MODULE Spec2Model ----
(***************************************************************************)
(* Model of the OmniSupport chat widget's session engine:                  *)
(*   - the widget store (widget.store.ts): init, startConversation,        *)
(*     sendMessage, loadMessages, addMessage and the message polling;      *)
(*   - the transport manager (websocket.ts): WebSocketManager.             *)
(* SyncSpec is the specification of the store and its backend, WsSpec the  *)
(* specification of the transport manager and its sockets.                 *)
(***************************************************************************)
EXTENDS Integers, Sequences, FiniteSets, TLC

(* ------------------------------ bounds -------------------------------- *)
MaxSends == 2
MaxAgentMsgs == 1
MaxStarts == 1
MaxFetches == 1
MaxTime == 1

(* --------------------------- value domains ---------------------------- *)
Null == "null"
Texts == {"Hello"}
\* conversation ids: 0 stands for null, SavedConv is the id a previous page
\* load may have persisted, the backend issues SavedConv + 1, ...
NoConv == 0
SavedConv == 1
ConvIds == 1 .. (1 + MaxStarts)

VARIABLES
  \* ---- widget store state (WidgetState)
  tenantSlug, visitor, config, conversation, messages,
  isLoading, isSending, error, prechatCompleted,
  \* ---- module state of the store file and its collaborators
  pollConv,       \* conversation the polling interval fetches, NoConv: no interval
  listeners,      \* number of new_message listeners registered on wsManager
  \* ---- asynchronous operations in flight
  initPc,         \* position of init
  initConv,       \* init's savedConversation.id, NoConv: none
  initHist,       \* history response init waits for (length served), -1: none
  starts,         \* startConversation requests in flight
  sends,          \* sendMessage requests in flight
  fetches,        \* getMessages responses in flight (poll ticks, loadMessages)
  \* ---- backend
  server,         \* conversation id -> ordered message list
  nextSrv,        \* next server-issued message id
  nConvs,         \* conversations the backend has created
  pushable,       \* ids of the messages the backend pushes over the socket
  now,            \* wall clock
  \* ---- bookkeeping
  nextTmp,        \* number of client-generated ids (crypto.randomUUID) drawn
  nStarts, nSends, nAgent,
  srvOf,          \* send number -> server id issued for it (0: not yet)
  outcome,        \* send number -> how its request ended
  reqCount,       \* send number -> requests issued for it
  tmpOf,          \* send number -> client-generated id of its optimistic message
  seen,           \* the notable steps taken so far: "dupPush", "pollDrop"
  \* ---- WebSocketManager fields
  ws, conversationId, reconnectAttempts, reconnectTimeout, pingTimeout,
  isConnecting, shouldReconnect,
  \* ---- the manager's environment
  sockets,        \* the WebSockets constructed and not yet done with: [conv, state]
  timers,         \* pending setTimeout timers: [id, delay]
  pings,          \* active setInterval timers (ids)
  emitted,        \* events the last step emitted, in order
  fails,          \* connection failures (a socket that the manager had not closed
                  \* closes, or the WebSocket constructor throws) since the last
                  \* open event, connect or disconnect
  rfails,         \* among them, the failed reconnect attempts (the attempts the
                  \* reconnect timer made)
  wire,           \* the frames the last step handed to a socket's send()
  idle,           \* disconnect() was called and connect has not been called since
  wlast,          \* the manager call made last, and whether it found the manager
                  \* connecting or open for the id it was given
  \* ---- storage
  items,          \* localStorage: the text held under each prefixed key
  slast,          \* the storage call made last and how it ended
  mode,           \* localStorage on this page: "works" or "disabled" (every
                  \* access throws)
  gen,            \* visitor ids generated so far (generateVisitorId)
  \* ---- the page
  clock,          \* the time on the page, in units of 100 ms
  typingTimers,   \* MessageInput: the pending setTimeout timers, by due time
  typingTimeoutRef, \* MessageInput: typingTimeoutRef.current (a due time), -1: unset
  lastInput,      \* the time of the last input change, -1: none since the
                  \* input was mounted or submitted
  stops,          \* typing timers that fired since the last input change
  burst,          \* input changes of the last burst (changes made while the
                  \* timer of the previous one was pending)
  dropped,        \* sendMessage calls that returned without doing anything
  initReads,      \* the storage keys init has read, in order
  observed,       \* the snapshots the store's subscribers were notified with by
                  \* the last step of init or startConversation, one per set()
  \* ---- the host page and the loader script (sdk/loader.ts)
  omni,           \* window.omni: "stub" (the embed snippet's), "loader"
  omniQ,          \* the array the snippet's stub pushes its calls to (omni.q)
  isLoaded,       \* loader: the widget bundle has loaded
  pendingCommands, \* loader: commands waiting for the widget bundle
  executed,       \* the commands that reached the switch of executeCommand
  scripts,        \* widget.js script elements inserted and not yet settled
  issued          \* omni(...) calls the page has made

storeVars == <<tenantSlug, visitor, config, conversation, messages,
               isLoading, isSending, error, prechatCompleted>>
envVars == <<pollConv, listeners>>
asyncVars == <<initPc, initConv, initHist, starts, sends, fetches>>
backendVars == <<server, nextSrv, nConvs, pushable, now>>
histVars == <<nextTmp, nStarts, nSends, nAgent, srvOf, outcome, reqCount, tmpOf, seen>>
counters == <<nextTmp, nStarts, nSends, nAgent, srvOf, outcome, reqCount, tmpOf>>
inputVars == <<clock, typingTimers, typingTimeoutRef, lastInput, stops, burst>>
loaderVars == <<omni, omniQ, isLoaded, pendingCommands, executed, scripts, issued>>
pageVars == <<mode, inputVars, loaderVars>>
lsVars == <<items, slast, pageVars, gen, dropped, initReads, observed>>
syncVars == <<storeVars, envVars, asyncVars, backendVars, histVars, lsVars>>

mgrVars == <<ws, conversationId, reconnectAttempts, reconnectTimeout, pingTimeout,
             isConnecting, shouldReconnect>>
wsVars == <<mgrVars, sockets, timers, pings, emitted, wire, fails, rfails, idle, wlast>>

vars == <<syncVars, wsVars>>

(* ------------------------------ messages ------------------------------ *)
\* A client-generated id (crypto.randomUUID) is modelled as -k for the k-th
\* id drawn, a server-issued id as a positive number.
TmpId(k) == 0 - k

Msg(id, sender, text, at) ==
  [id |-> id, senderType |-> sender, text |-> text, createdAt |-> at]

Ids(ms) == {ms[i].id : i \in DOMAIN ms}

Count(ms, id) == Cardinality({i \in DOMAIN ms : ms[i].id = id})

\* a confirmation that would move the entry to the end of the list
ConfirmMapAppend(ms, tempId, newId, at) ==
  LET kept == SelectSeq(ms, LAMBDA m : m.id # tempId)
      gone == SelectSeq(ms, LAMBDA m : m.id = tempId)
  IN  kept \o [i \in DOMAIN gone |-> [gone[i] EXCEPT !.id = newId, !.createdAt = at]]

\* a rollback that would leave the optimistic entry in the list
RemoveIdKeep(ms, tempId) == ms

\* an addMessage without its duplicate test
AddMessageToAlways(ms, m) == Append(ms, m)

\* state.messages.map(m => m.id === tempId ? {...m, id, createdAt} : m)
ConfirmMap(ms, tempId, newId, at) ==
  [i \in DOMAIN ms |->
     IF ms[i].id = tempId
       THEN [ms[i] EXCEPT !.id = newId, !.createdAt = at]
       ELSE ms[i]]

\* state.messages.filter(m => m.id !== tempId)
RemoveId(ms, tempId) == SelectSeq(ms, LAMBDA m : m.id # tempId)

\* addMessage's state update
AddMessageTo(ms, m) == IF m.id \in Ids(ms) THEN ms ELSE Append(ms, m)

\* a poll callback that would always take the fetched list
PollUpdateAlways(ms, fetched) == fetched

\* the poll callback's update
PollUpdate(ms, fetched) == IF Len(fetched) > Len(ms) THEN fetched ELSE ms

Fetched(f) == SubSeq(server[f.conv], 1, f.n)

(* ========================= WebSocketManager ========================== *)
\* sockets, reconnect timers and heartbeat intervals alive at the same time
MaxSockets == 2
MaxTimers == 2
MaxPings == 2
MaxDropped == 1
MaxClock == 30
MaxBurst == 3
MaxVisitors == 3
MaxTrafficFails == 1
MaxCmds == 3
MaxScripts == 2

reconnectDelay == 1000
maxReconnectAttempts == 10
MaxDelay == 30000

Min(a, b) == IF a < b THEN a ELSE b

\* Sockets, timers and intervals are identified by the smallest number not in
\* use (0: more than `max` would be alive at once).
FreeId(used, max) ==
  IF \E i \in 1 .. max : i \notin used
    THEN CHOOSE i \in 1 .. max : i \notin used /\ \A j \in 1 .. max : j \notin used => i <= j
    ELSE 0

NoSocket == [conv |-> 0, state |-> "none", retry |-> FALSE]

\* A socket whose close event was delivered fires no further event: it is
\* dropped once the manager no longer refers to it.
Release(socks, cur) ==
  [s \in DOMAIN socks |->
     IF socks[s].state = "closed" /\ s # cur THEN NoSocket ELSE socks[s]]

RECURSIVE Pow2(_)
Pow2(n) == IF n = 0 THEN 1 ELSE 2 * Pow2(n - 1)

\* The manager and its environment as one record, so that the methods compose
\* the way the code calls them.  0 stands for null.
M == [ws |-> ws, conversationId |-> conversationId,
      reconnectAttempts |-> reconnectAttempts,
      reconnectTimeout |-> reconnectTimeout, pingTimeout |-> pingTimeout,
      isConnecting |-> isConnecting, shouldReconnect |-> shouldReconnect,
      sockets |-> sockets, timers |-> timers,
      pings |-> pings, emitted |-> <<>>, wire |-> <<>>,
      fails |-> fails, rfails |-> rfails,
      retry |-> FALSE, over |-> FALSE]

SetM(m) ==
  /\ ws' = m.ws /\ conversationId' = m.conversationId
  /\ reconnectAttempts' = m.reconnectAttempts
  /\ reconnectTimeout' = m.reconnectTimeout /\ pingTimeout' = m.pingTimeout
  /\ isConnecting' = m.isConnecting /\ shouldReconnect' = m.shouldReconnect
  /\ sockets' = Release(m.sockets, m.ws) /\ timers' = m.timers
  /\ pings' = m.pings /\ emitted' = m.emitted /\ wire' = m.wire
  /\ fails' = m.fails /\ rfails' = m.rfails

\* send(data) without the readyState test
SendAlways(m, data) ==
  [m EXCEPT !.wire = Append(@, [sock |-> m.ws, data |-> data])]

\* send(data): handed to the socket only if the manager holds an open one
Send(m, data) ==
  IF m.ws # 0 /\ m.sockets[m.ws].state = "open"
    THEN [m EXCEPT !.wire = Append(@, [sock |-> m.ws, data |-> data])]
    ELSE m

\* sendTyping(isTyping)
TypingFrame(isTyping) ==
  [type |-> IF isTyping THEN "typing_start" ELSE "typing_stop"]

SendTyping(m, isTyping) == Send(m, TypingFrame(isTyping))

\* emit(event, data)
EmitData(m, event, data) ==
  [m EXCEPT !.emitted = Append(@, [event |-> event, data |-> data])]

\* the data of an event emitted with null
NoData == [null |-> TRUE]

\* emit(event, null)
Emit(m, event) == EmitData(m, event, NoData)

\* the Message handleMessage builds from the data of a message event
ToMessage(d) ==
  [id |-> d.id, senderType |-> d.sender_type, contentType |-> d.content_type,
   content |-> d.content, createdAt |-> d.created_at]

\* handleMessage that re-emits the raw event only
HandleMessageRawOnly(m, event) == EmitData(m, event.type, event.data)

HandleMessage(m, event) ==
  LET m1 == EmitData(m, event.type, event.data)
  IN  IF event.type = "message"
        THEN EmitData(m1, "new_message", ToMessage(event.data))
        ELSE m1

\* onmessage: the frame's text is parsed; text that is not JSON is dropped
OnMessage(m, frame) ==
  IF frame.json THEN HandleMessage(m, frame.event) ELSE m

StartPing(m) ==
  LET p == FreeId({q : q \in m.pings}, MaxPings)
  IN  IF p = 0 THEN [m EXCEPT !.over = TRUE]
      ELSE [m EXCEPT !.pingTimeout = p, !.pings = @ \cup {p}]

StopPing(m) ==
  IF m.pingTimeout # 0
    THEN [m EXCEPT !.pings = @ \ {m.pingTimeout}, !.pingTimeout = 0]
    ELSE m

ReconnectDelayOf(attempts) == Min(reconnectDelay * Pow2(attempts), MaxDelay)

ScheduleReconnect(m) ==
  IF m.reconnectAttempts >= maxReconnectAttempts \/ ~m.shouldReconnect
    THEN Emit(m, "reconnect_failed")
    ELSE LET t == FreeId({x.id : x \in m.timers}, MaxTimers)
         IN  IF t = 0 THEN [m EXCEPT !.over = TRUE]
             ELSE [m EXCEPT !.reconnectTimeout = t,
                            !.timers = @ \cup {[id |-> t,
                                                delay |-> ReconnectDelayOf(m.reconnectAttempts)]}]

\* doConnect(); `throws`: the WebSocket constructor throws
DoConnect(m, throws) ==
  IF m.conversationId = 0 \/ m.isConnecting
    THEN m
    ELSE IF throws
      THEN ScheduleReconnect([m EXCEPT !.isConnecting = FALSE, !.fails = @ + 1,
                                       !.rfails = IF m.retry THEN @ + 1 ELSE @])
      ELSE LET s == FreeId({x \in DOMAIN m.sockets : m.sockets[x] # NoSocket},
                           MaxSockets)
           IN  IF s = 0 THEN [m EXCEPT !.isConnecting = TRUE, !.over = TRUE]
               ELSE [m EXCEPT !.isConnecting = TRUE,
                              !.sockets[s] = [conv |-> m.conversationId,
                                              state |-> "connecting",
                                              retry |-> m.retry],
                              !.ws = s]

\* WebSocket.close(): a socket that is connecting or open starts closing, its
\* close event is delivered later
CloseSocket(socks, s) ==
  IF socks[s].state \in {"connecting", "open"}
    THEN [socks EXCEPT ![s].state = "closing"]
    ELSE socks

Disconnect(m) ==
  LET m1 == StopPing([m EXCEPT !.shouldReconnect = FALSE])
      m2 == IF m1.reconnectTimeout # 0
              THEN [m1 EXCEPT !.timers = {t \in @ : t.id # m1.reconnectTimeout},
                              !.reconnectTimeout = 0]
              ELSE m1
      m3 == IF m2.ws # 0
              THEN [m2 EXCEPT !.sockets = CloseSocket(@, m2.ws), !.ws = 0]
              ELSE m2
  IN  [m3 EXCEPT !.conversationId = 0, !.reconnectAttempts = 0,
                 !.fails = 0, !.rfails = 0]

\* a guard that would only look at isConnecting
ConnectGuardConnecting(m, id) == m.isConnecting

ConnectGuard(m, id) == m.isConnecting \/ (m.ws # 0 /\ m.conversationId = id)

Connect(m, id, throws) ==
  IF ConnectGuard(m, id)
    THEN m
    ELSE DoConnect([Disconnect(m) EXCEPT !.conversationId = id,
                                         !.shouldReconnect = TRUE], throws)

OnOpen(m) ==
  StartPing(Emit([m EXCEPT !.isConnecting = FALSE, !.reconnectAttempts = 0,
                            !.fails = 0, !.rfails = 0],
                 "connected"))

OnClose(m) ==
  LET m1 == Emit(StopPing([m EXCEPT !.isConnecting = FALSE]), "disconnected")
  IN  IF m1.shouldReconnect THEN ScheduleReconnect(m1) ELSE m1

OnError(m) == Emit([m EXCEPT !.isConnecting = FALSE], "error")

\* the callback scheduleReconnect hands to setTimeout
OnReconnectTimer(m, throws) ==
  DoConnect(EmitData([m EXCEPT !.reconnectAttempts = @ + 1, !.retry = TRUE],
                     "reconnecting", [attempt |-> m.reconnectAttempts + 1]),
            throws)

Within(m) == ~m.over

\* socket s reaches CLOSED; it is a connection failure unless the manager had
\* closed the socket itself
Closed(m, s) ==
  [m EXCEPT !.sockets[s].state = "closed",
            !.fails = IF m.sockets[s].state \in {"connecting", "open"}
                        THEN @ + 1 ELSE @,
            !.rfails = IF m.sockets[s].state = "connecting" /\ m.sockets[s].retry
                         THEN @ + 1 ELSE @]

\* the manager's current socket is connecting or open, and it is for id
LiveFor(id) ==
  /\ ws # 0 /\ sockets[ws].state \in {"connecting", "open"}
  /\ conversationId = id

NoCall == [op |-> "event", id |-> 0, live |-> FALSE]

\* wsManager.connect(id) as the store and the page call it
ConnectCall(id) ==
  /\ \E throws \in BOOLEAN :
       LET m == Connect(M, id, throws) IN Within(m) /\ SetM(m)
  /\ wlast' = [op |-> "connect", id |-> id, live |-> LiveFor(id)]
  /\ idle' = FALSE

\* a socket for conversation c is open: the backend's pushes for c arrive
OpenFor(c) ==
  \E s \in DOMAIN sockets : sockets[s].conv = c /\ sockets[s].state = "open"

(* ------------------------------- storage ------------------------------ *)
\* STORAGE_KEYS, those the widget uses
Keys == {"visitor", "conversation", "prechat_completed"}

\* the values the widget stores
Values == {"v1", "v2"}

\* JSON.stringify(value): the text that encodes value
Stringify(value) == [kind |-> "json", value |-> value]

\* what localStorage may hold under a key: nothing, the empty string, text
\* that is no JSON (written by another script or cut short), or an encoding
NoItem == [kind |-> "none"]
EmptyText == [kind |-> "empty"]
Garbage == [kind |-> "garbage"]
ItemTexts == {EmptyText, Garbage} \cup {Stringify(v) : v \in Values}

\* the outcome of a block of code: it completed with a value, or threw
Done(value) == [threw |-> FALSE, null |-> FALSE, value |-> value]
DoneNull == [threw |-> FALSE, null |-> TRUE, value |-> Null]
Threw == [threw |-> TRUE, null |-> TRUE, value |-> Null]

\* JSON.parse(text)
Parse(text) == IF text.kind = "json" THEN Done(text.value) ELSE Threw

\* the try block of get: getItem, then JSON.parse unless the item is falsy
GetBody(ls, key, throws) ==
  IF throws THEN Threw
  ELSE IF ls[key].kind \in {"none", "empty"} THEN DoneNull
  ELSE Parse(ls[key])

\* a try without its catch
NoCatch(body) == body

\* try { body } catch { return null }
CatchNull(body) == IF body.threw THEN DoneNull ELSE body

\* storage.get(key)
StorageGet(ls, key, throws) == CatchNull(GetBody(ls, key, throws))

\* storage.set(key, value): the outcome and the storage afterwards
StorageSet(ls, key, value, throws) ==
  IF throws
    THEN [out |-> CatchNull(Threw), ls |-> ls]
    ELSE [out |-> CatchNull(DoneNull), ls |-> [ls EXCEPT ![key] = Stringify(value)]]

\* storage.remove(key)
StorageRemove(ls, key, throws) ==
  IF throws
    THEN [out |-> CatchNull(Threw), ls |-> ls]
    ELSE [out |-> CatchNull(DoneNull), ls |-> [ls EXCEPT ![key] = NoItem]]

NoStorageCall ==
  [op |-> "none", key |-> "", threw |-> FALSE, value |-> Null,
   failed |-> FALSE, held |-> NoItem]

\* whether a localStorage access of this step throws: never while the
\* browser's storage works, always while it is disabled
Modes == {"works", "disabled"}
Throws == {mode = "disabled"}

\* the conversation a working storage.get("conversation") returns, NoConv: null
storedConv ==
  IF StorageGet(items, "conversation", FALSE).null
    THEN NoConv ELSE StorageGet(items, "conversation", FALSE).value

\* storage.get("prechat_completed") || false
PrechatOf(r) == IF r.null THEN FALSE ELSE r.value

storedPrechat == PrechatOf(StorageGet(items, "prechat_completed", FALSE))

(* ------------------------------- visitor ------------------------------ *)
\* visitor: null
NoVisitor == [id |-> 0, createdAt |-> 0, name |-> Null, email |-> Null]

\* the names a visitor is identified with
Names == {"Ann"}
Emails == {"ann@example.com"}

\* a key an object literal does not have (Null: the key with undefined, or
\* a field JSON.stringify left out)
Absent == "absent"

\* { id: generateVisitorId(), createdAt: new Date().toISOString() }
NewVisitor(n, t) == [id |-> n, createdAt |-> t, name |-> Null, email |-> Null]

\* getVisitor() without its look at the storage: a new visitor every time
GetVisitorAlwaysNew(ls, g, t, throwsGet, throwsSet) ==
  [visitor |-> NewVisitor(g + 1, t),
   ls |-> StorageSet(ls, "visitor", NewVisitor(g + 1, t), throwsSet).ls,
   gen |-> g + 1]

\* getVisitor(): the persisted visitor if storage.get returns one, else a new
\* one, which is persisted; g: ids generated before, t: the clock
GetVisitor(ls, g, t, throwsGet, throwsSet) ==
  LET existing == StorageGet(ls, "visitor", throwsGet)
  IN  IF ~existing.null
        THEN [visitor |-> existing.value, ls |-> ls, gen |-> g]
        ELSE [visitor |-> NewVisitor(g + 1, t),
              ls |-> StorageSet(ls, "visitor", NewVisitor(g + 1, t), throwsSet).ls,
              gen |-> g + 1]

\* { ...current, ...updates }: every key updates has replaces the field, a
\* key with the value undefined included
Spread(current, updates) ==
  [current EXCEPT !.name = IF updates.name = Absent THEN @ ELSE updates.name,
                  !.email = IF updates.email = Absent THEN @ ELSE updates.email]

\* updateVisitor(updates): { ...current, ...updates } is persisted and returned
UpdateVisitor(ls, g, t, updates, throwsGet, throwsSet, throwsSave) ==
  LET current == GetVisitor(ls, g, t, throwsGet, throwsSet)
      updated == Spread(current.visitor, updates)
  IN  [visitor |-> updated,
       ls |-> StorageSet(current.ls, "visitor", updated, throwsSave).ls,
       gen |-> current.gen]

\* the visitor an earlier page load persisted
SavedVisitor == NewVisitor(1, 0)

(* -------------------------------- Init -------------------------------- *)
\* The store as constructed; localStorage and the backend may hold what an
\* earlier page load left: a persisted conversation with a history.
SavedHistory == <<Msg(1, "operator", "reply", 0)>>

\* the widget configurations api.getConfig returns: one that asks for nothing
\* before the chat, one that requires a name or an email (the pre-chat form)
PlainConfig == "config"
FormConfig == "form"
Configs == {PlainConfig, FormConfig}

\* what a subscriber sees of the store at one set() call
Snap(c, loading, prechat) ==
  [conversation |-> c, isLoading |-> loading, prechatCompleted |-> prechat]

\* MessageInput as mounted: no typing timer
\* the page has run the embed snippet; loader.js has not run yet
SnippetRan ==
  /\ omni = "stub" /\ omniQ = <<>> /\ isLoaded = FALSE /\ pendingCommands = <<>>
  /\ executed = <<>> /\ scripts = 0 /\ issued = 0

InputInit ==
  /\ clock = 0 /\ typingTimers = {} /\ typingTimeoutRef = -1
  /\ lastInput = -1 /\ stops = 0 /\ burst = 0
  /\ SnippetRan

StoreInit ==
  /\ slast = NoStorageCall /\ InputInit
  /\ dropped = 0 /\ initReads = <<>> /\ observed = <<>>
  /\ tenantSlug = Null /\ visitor = NoVisitor /\ config = Null
  /\ conversation = NoConv /\ messages = <<>>
  /\ isLoading = FALSE /\ isSending = FALSE /\ error = Null
  /\ prechatCompleted = FALSE
  /\ pollConv = NoConv /\ listeners = 0
  /\ initPc = "idle" /\ initConv = NoConv /\ initHist = -1
  /\ starts = {} /\ sends = {} /\ fetches = {}
  /\ server \in {[c \in ConvIds |-> <<>>],
                 [c \in ConvIds |-> IF c = SavedConv /\ storedConv = SavedConv
                                      THEN SavedHistory ELSE <<>>]}
  /\ nextSrv = Len(server[SavedConv]) + 1
  /\ nConvs = (IF storedConv = NoConv THEN 0 ELSE 1)
  /\ pushable = {} /\ now = 0
  /\ nextTmp = 0 /\ nStarts = 0 /\ nSends = 0 /\ nAgent = 0
  /\ srvOf = [k \in 1 .. MaxSends |-> 0]
  /\ outcome = [k \in 1 .. MaxSends |-> "none"]
  /\ reqCount = [k \in 1 .. MaxSends |-> 0]
  /\ tmpOf = [k \in 1 .. MaxSends |-> 0]
  /\ seen = {}

\* a first visit (nothing persisted) or a return visit (the visitor and the
\* conversation an earlier startConversation persisted), storage working
SyncInit ==
  /\ mode = "works"
  /\ \E saved \in BOOLEAN, prechat \in BOOLEAN :
       /\ prechat => saved
       /\ items = [k \in Keys |->
                     IF ~saved THEN NoItem
                     ELSE IF k = "visitor" THEN Stringify(SavedVisitor)
                     ELSE IF k = "conversation" THEN Stringify(SavedConv)
                     ELSE IF prechat THEN Stringify(TRUE) ELSE NoItem]
       /\ gen = (IF saved THEN 1 ELSE 0)
  /\ StoreInit

(* -------------------------------- init -------------------------------- *)
\* init(tenantSlug), up to its first await (api.getConfig).  getVisitor()
\* returns the persisted visitor or creates one: either way a visitor is set.
InitStart ==
  /\ initPc = "idle"
  /\ isLoading' = TRUE /\ error' = Null
  /\ tenantSlug' = "tenant"
  /\ \E throwsGet \in Throws, throwsSet \in Throws :
       LET got == GetVisitor(items, gen, now, throwsGet, throwsSet)
       IN  visitor' = got.visitor /\ items' = got.ls /\ gen' = got.gen
  /\ initReads' = Append(initReads, "visitor")
  /\ observed' = <<Snap(conversation, TRUE, prechatCompleted),
                   Snap(conversation, TRUE, prechatCompleted)>>
  /\ initPc' = "config"
  /\ UNCHANGED seen
  /\ UNCHANGED <<wsVars, slast, pageVars, dropped>>
  /\ UNCHANGED <<config, conversation, messages, isSending, prechatCompleted>>
  /\ UNCHANGED <<envVars, initConv, initHist, starts, sends, fetches, backendVars>>
  /\ UNCHANGED counters

\* the tail of init: prechat status, listeners, isLoading; `before` are the
\* snapshots the step published before it, `reads` the keys it read before
\* it, `conv` the conversation it leaves
InitTail(reads, before, conv) ==
  /\ \E throws \in Throws :
       prechatCompleted' = PrechatOf(StorageGet(items, "prechat_completed", throws))
  /\ initReads' = initReads \o reads \o <<"prechat_completed">>
  /\ observed' = before \o <<Snap(conv, TRUE, prechatCompleted'),
                              Snap(conv, FALSE, prechatCompleted')>>
  /\ listeners' = listeners + 1
  /\ isLoading' = FALSE
  /\ initPc' = "done"

\* api.getConfig resolved; an exception out of storage.get would end init in
\* its outer catch
InitConfigOk(cfg) ==
  /\ initPc = "config"
  /\ config' = cfg
  /\ \E throws \in Throws :
       LET savedConversation == StorageGet(items, "conversation", throws)
           first == <<Snap(conversation, TRUE, prechatCompleted)>>
       IN  IF savedConversation.threw
             THEN /\ isLoading' = FALSE /\ error' = "Failed to initialize widget"
                  /\ initPc' = "done"
                  /\ initReads' = Append(initReads, "conversation")
                  /\ observed' = Append(first, Snap(conversation, FALSE,
                                                     prechatCompleted))
                  /\ UNCHANGED <<conversation, initConv, prechatCompleted, listeners>>
           ELSE IF ~savedConversation.null
             THEN /\ conversation' = savedConversation.value
                  /\ initConv' = savedConversation.value
                  /\ initPc' = "history"
                  /\ initReads' = Append(initReads, "conversation")
                  /\ observed' = Append(first, Snap(savedConversation.value, TRUE,
                                                     prechatCompleted))
                  /\ UNCHANGED <<prechatCompleted, listeners, isLoading, error>>
             ELSE /\ UNCHANGED <<conversation, initConv, error>>
                  /\ InitTail(<<"conversation">>, first, conversation)
  /\ UNCHANGED seen
  /\ UNCHANGED <<wsVars, items, slast, pageVars, gen, dropped>>
  /\ UNCHANGED <<tenantSlug, visitor, messages, isSending>>
  /\ UNCHANGED pollConv
  /\ UNCHANGED <<initHist, starts, sends, fetches, backendVars>>
  /\ UNCHANGED counters

\* api.getConfig rejected: the outer catch
InitConfigFail ==
  /\ initPc = "config"
  /\ isLoading' = FALSE /\ error' = "Failed to initialize widget"
  /\ initPc' = "done"
  /\ observed' = <<Snap(conversation, FALSE, prechatCompleted)>>
  /\ UNCHANGED seen
  /\ UNCHANGED <<wsVars, items, slast, pageVars, gen, dropped, initReads>>
  /\ UNCHANGED <<tenantSlug, visitor, config, conversation, messages,
                 isSending, prechatCompleted>>
  /\ UNCHANGED <<envVars, initConv, initHist, starts, sends, fetches, backendVars>>
  /\ UNCHANGED counters

\* the backend serves init's api.getMessages(savedConversation.id)
InitHistoryServe ==
  /\ initPc = "history" /\ initHist = -1
  /\ initHist' = Len(server[initConv])
  /\ UNCHANGED seen
  /\ UNCHANGED <<wsVars, lsVars>>
  /\ UNCHANGED <<storeVars, envVars, initPc, initConv, starts, sends, fetches, backendVars>>
  /\ UNCHANGED counters

\* init's api.getMessages resolved
InitHistoryOk ==
  /\ initPc = "history" /\ initHist >= 0
  /\ messages' = SubSeq(server[initConv], 1, initHist)
  /\ ConnectCall(initConv)
  /\ UNCHANGED <<items, slast, pageVars, gen, dropped>>
  /\ InitTail(<<>>, <<Snap(conversation, TRUE, prechatCompleted)>>, conversation)
  /\ initHist' = -1
  /\ UNCHANGED seen
  /\ UNCHANGED <<tenantSlug, visitor, config, conversation, isSending, error>>
  /\ UNCHANGED pollConv
  /\ UNCHANGED <<initConv, starts, sends, fetches, backendVars>>
  /\ UNCHANGED counters

\* init's api.getMessages rejected: the inner catch
InitHistoryFail ==
  /\ initPc = "history"
  /\ \E throws \in Throws :
       items' = StorageRemove(items, "conversation", throws).ls
  /\ conversation' = NoConv /\ messages' = <<>>
  /\ InitTail(<<>>, <<Snap(NoConv, TRUE, prechatCompleted)>>, NoConv)
  /\ initHist' = -1
  /\ UNCHANGED seen
  /\ UNCHANGED <<wsVars, slast, pageVars, gen, dropped>>
  /\ UNCHANGED <<tenantSlug, visitor, config, isSending, error>>
  /\ UNCHANGED pollConv
  /\ UNCHANGED <<initConv, starts, sends, fetches, backendVars>>
  /\ UNCHANGED counters

(* -------------------------- startConversation ------------------------- *)
\* startConversation(data), up to its await; data.initialMessage is
\* `initial` (Null: none given), data.name is `name`; `form`: the call is
\* PrechatForm's, which calls onComplete (completePrechat) when it returns
StartConversation(initial, name, email, form) ==
  /\ tenantSlug # Null /\ visitor # NoVisitor
  /\ nStarts < MaxStarts
  /\ isLoading' = TRUE /\ error' = Null
  /\ nStarts' = nStarts + 1
  /\ starts' = starts \cup {[n |-> nStarts + 1, initial |-> initial, name |-> name,
                           email |-> email,
                           visitor |-> visitor.id, form |-> form, conv |-> NoConv]}
  /\ observed' = <<Snap(conversation, TRUE, prechatCompleted)>>
  /\ UNCHANGED seen
  /\ UNCHANGED <<wsVars, items, slast, pageVars, gen, dropped, initReads>>
  /\ UNCHANGED <<tenantSlug, visitor, config, conversation, messages,
                 isSending, prechatCompleted>>
  /\ UNCHANGED <<envVars, initPc, initConv, initHist, sends, fetches, backendVars>>
  /\ UNCHANGED <<nextTmp, nSends, nAgent, srvOf, outcome, reqCount, tmpOf>>

\* the backend creates the conversation, with the initial message if given
StartServe(r) ==
  /\ r \in starts /\ r.conv = NoConv
  /\ \E t \in now .. MaxTime :
       /\ now' = t
       /\ nConvs' = nConvs + 1
       /\ starts' = (starts \ {r}) \cup {[r EXCEPT !.conv = nConvs + 1]}
       /\ IF r.initial # Null
            THEN /\ server' = [server EXCEPT ![nConvs + 1] =
                                 <<Msg(nextSrv, "customer", r.initial, t)>>]
                 /\ nextSrv' = nextSrv + 1
            ELSE UNCHANGED <<server, nextSrv>>
  /\ UNCHANGED seen
  /\ UNCHANGED <<wsVars, lsVars>>
  /\ UNCHANGED <<storeVars, envVars, initPc, initConv, initHist, sends, fetches>>
  /\ UNCHANGED <<pushable, counters>>

\* api.startConversation resolved
StartOk(r) ==
  /\ r \in starts /\ r.conv # NoConv
  /\ starts' = starts \ {r}
  /\ \E throwsConv \in Throws, throwsGet \in Throws, throwsSet \in Throws,
        throwsSave \in Throws, throwsPrechat \in Throws :
       LET saved == StorageSet(items, "conversation", r.conv, throwsConv).ls
           named == IF r.name # Null \/ r.email # Null
                      THEN UpdateVisitor(saved, gen, now,
                                         [name |-> r.name, email |-> r.email],
                                         throwsGet, throwsSet, throwsSave)
                      ELSE [ls |-> saved, gen |-> gen]
       IN  /\ items' = StorageSet(named.ls, "prechat_completed", TRUE,
                                   throwsPrechat).ls
           /\ gen' = named.gen
  /\ conversation' = r.conv
  /\ IF r.initial # Null
       THEN \E t \in now .. MaxTime :
              /\ now' = t
              /\ messages' = <<Msg(TmpId(nextTmp + 1), "customer", r.initial, t)>>
              /\ nextTmp' = nextTmp + 1
       ELSE UNCHANGED <<messages, nextTmp, now>>
  /\ ConnectCall(r.conv)
  /\ observed' = <<Snap(r.conv, isLoading, prechatCompleted)>>
                  \o (IF r.initial # Null
                        THEN <<Snap(r.conv, isLoading, prechatCompleted)>> ELSE <<>>)
                  \o <<Snap(r.conv, FALSE, TRUE)>>
                  \o (IF r.form THEN <<Snap(r.conv, FALSE, TRUE)>> ELSE <<>>)
  /\ UNCHANGED <<slast, pageVars, dropped, initReads>>
  /\ pollConv' = r.conv
  /\ isLoading' = FALSE /\ prechatCompleted' = TRUE
  /\ UNCHANGED seen
  /\ UNCHANGED <<tenantSlug, visitor, config, isSending, error, listeners>>
  /\ UNCHANGED <<initPc, initConv, initHist, sends, fetches>>
  /\ UNCHANGED <<server, nextSrv, nConvs, pushable>>
  /\ UNCHANGED <<nStarts, nSends, nAgent, srvOf, outcome, reqCount, tmpOf>>

\* startConversation without its catch: the rejection leaves the operation
\* and the store is not touched
StartFailUncaught(r) ==
  /\ r \in starts
  /\ starts' = starts \ {r}
  /\ UNCHANGED <<storeVars, observed, items>>
  /\ UNCHANGED seen
  /\ UNCHANGED <<wsVars, slast, pageVars, gen, dropped, initReads>>
  /\ UNCHANGED <<envVars, initPc, initConv, initHist, sends, fetches, backendVars>>
  /\ UNCHANGED counters

\* api.startConversation rejected: the catch; PrechatForm then calls
\* onComplete all the same (startConversation does not rethrow)
StartFail(r) ==
  /\ r \in starts
  /\ starts' = starts \ {r}
  /\ isLoading' = FALSE /\ error' = "Failed to start conversation"
  /\ IF r.form
       THEN /\ prechatCompleted' = TRUE
            /\ \E throws \in Throws :
                 items' = StorageSet(items, "prechat_completed", TRUE, throws).ls
       ELSE UNCHANGED <<prechatCompleted, items>>
  /\ observed' = <<Snap(conversation, FALSE, prechatCompleted)>>
                  \o (IF r.form THEN <<Snap(conversation, FALSE, TRUE)>> ELSE <<>>)
  /\ UNCHANGED seen
  /\ UNCHANGED <<wsVars, slast, pageVars, gen, dropped, initReads>>
  /\ UNCHANGED <<tenantSlug, visitor, config, conversation, messages, isSending>>
  /\ UNCHANGED <<envVars, initPc, initConv, initHist, sends, fetches, backendVars>>
  /\ UNCHANGED counters

(* ----------------------------- sendMessage ---------------------------- *)
\* sendMessage(content) with a conversation, up to its await: the optimistic
\* append (the store and the request; the caller says what else is untouched)
SendMessageStore(text) ==
  /\ conversation # NoConv
  /\ nSends < MaxSends
  /\ \E t \in now .. MaxTime :
       /\ now' = t
       /\ messages' = Append(messages, Msg(TmpId(nextTmp + 1), "customer", text, t))
  /\ isSending' = TRUE
  /\ nextTmp' = nextTmp + 1
  /\ nSends' = nSends + 1
  /\ reqCount' = [reqCount EXCEPT ![nSends + 1] = @ + 1]
  /\ sends' = sends \cup {[k |-> nSends + 1, tmp |-> TmpId(nextTmp + 1),
                           conv |-> conversation, text |-> text,
                           srv |-> 0, at |-> 0]}
  /\ UNCHANGED seen
  /\ UNCHANGED <<tenantSlug, visitor, config, conversation, isLoading, error,
                 prechatCompleted>>
  /\ UNCHANGED <<envVars, initPc, initConv, initHist, starts, fetches>>
  /\ UNCHANGED <<server, nextSrv, nConvs, pushable>>
  /\ UNCHANGED <<nStarts, nAgent, srvOf, outcome>>
  /\ tmpOf' = [tmpOf EXCEPT ![nSends + 1] = TmpId(nextTmp + 1)]

\* sendMessage(content) called on its own
SendMessage(text) == SendMessageStore(text) /\ UNCHANGED <<wsVars, lsVars>>

\* the backend stores the message and issues its id and timestamp; it pushes
\* the message over the conversation's socket if one was requested
SendServe(r) ==
  /\ r \in sends /\ r.srv = 0
  /\ \E t \in now .. MaxTime :
       /\ now' = t
       /\ server' = [server EXCEPT ![r.conv] =
                       Append(@, Msg(nextSrv, "customer", r.text, t))]
       /\ sends' = (sends \ {r}) \cup {[r EXCEPT !.srv = nextSrv, !.at = t]}
  /\ nextSrv' = nextSrv + 1
  /\ srvOf' = [srvOf EXCEPT ![r.k] = nextSrv]
  /\ pushable' = IF OpenFor(r.conv) THEN pushable \cup {nextSrv} ELSE pushable
  /\ UNCHANGED seen
  /\ UNCHANGED <<wsVars, lsVars>>
  /\ UNCHANGED <<storeVars, envVars, initPc, initConv, initHist, starts, fetches>>
  /\ UNCHANGED <<nConvs, nextTmp, nStarts, nSends, nAgent, outcome, reqCount, tmpOf>>

\* api.sendMessage resolved: the optimistic entry takes the server's id
SendOk(r) ==
  /\ r \in sends /\ r.srv # 0
  /\ sends' = sends \ {r}
  /\ messages' = ConfirmMap(messages, r.tmp, r.srv, r.at)
  /\ isSending' = FALSE
  /\ outcome' = [outcome EXCEPT ![r.k] =
                   IF r.tmp \in Ids(messages) THEN "inPlace" ELSE "absent"]
  /\ UNCHANGED seen
  /\ UNCHANGED <<wsVars, lsVars>>
  /\ UNCHANGED <<tenantSlug, visitor, config, conversation, isLoading, error,
                 prechatCompleted>>
  /\ UNCHANGED <<envVars, initPc, initConv, initHist, starts, fetches, backendVars>>
  /\ UNCHANGED <<nextTmp, nStarts, nSends, nAgent, srvOf, reqCount, tmpOf>>

\* api.sendMessage rejected (the request or its response was lost)
SendFail(r) ==
  /\ r \in sends
  /\ sends' = sends \ {r}
  /\ messages' = RemoveId(messages, r.tmp)
  /\ isSending' = FALSE
  /\ error' = "Failed to send message"
  /\ outcome' = [outcome EXCEPT ![r.k] = "failed"]
  /\ UNCHANGED seen
  /\ UNCHANGED <<wsVars, lsVars>>
  /\ UNCHANGED <<tenantSlug, visitor, config, conversation, isLoading,
                 prechatCompleted>>
  /\ UNCHANGED <<envVars, initPc, initConv, initHist, starts, fetches, backendVars>>
  /\ UNCHANGED <<nextTmp, nStarts, nSends, nAgent, srvOf, reqCount, tmpOf>>

(* ------------------------ addMessage (duplex push) -------------------- *)
ServerMsgs(c) == {server[c][i] : i \in DOMAIN server[c]}

\* The transport manager emits new_message with a message the backend pushed;
\* the listener init registered calls addMessage(message).  A push may be
\* delivered more than once.
AddMessage(m) ==
  /\ listeners > 0
  /\ \E c \in ConvIds : OpenFor(c) /\ m \in ServerMsgs(c)
  /\ m.id \in pushable
  /\ messages' = AddMessageTo(messages, m)
  /\ seen' = IF m.id \in Ids(messages) THEN seen \cup {"dupPush"} ELSE seen
  /\ UNCHANGED <<wsVars, lsVars>>
  /\ UNCHANGED <<tenantSlug, visitor, config, conversation, isLoading,
                 isSending, error, prechatCompleted>>
  /\ UNCHANGED <<envVars, asyncVars, backendVars, counters>>

(* ------------------------- polling, loadMessages ---------------------- *)
\* A tick of the interval startMessagePolling set calls api.getMessages, and
\* the backend answers with the list it holds (f.n: its length then).
PollTick ==
  /\ pollConv # NoConv
  /\ Cardinality(fetches) < MaxFetches
  /\ fetches' = fetches \cup
       {[kind |-> "poll", conv |-> pollConv, n |-> Len(server[pollConv])]}
  /\ UNCHANGED seen
  /\ UNCHANGED <<wsVars, lsVars>>
  /\ UNCHANGED <<storeVars, envVars, initPc, initConv, initHist, starts, sends>>
  /\ UNCHANGED <<backendVars, counters>>

\* loadMessages(), up to its await, and the backend's answer
LoadMessages ==
  /\ conversation # NoConv
  /\ Cardinality(fetches) < MaxFetches
  /\ fetches' = fetches \cup
       {[kind |-> "load", conv |-> conversation, n |-> Len(server[conversation])]}
  /\ UNCHANGED seen
  /\ UNCHANGED <<wsVars, lsVars>>
  /\ UNCHANGED <<storeVars, envVars, initPc, initConv, initHist, starts, sends>>
  /\ UNCHANGED <<backendVars, counters>>

\* the poll callback after its await
PollApply(f) ==
  /\ f \in fetches /\ f.kind = "poll"
  /\ fetches' = fetches \ {f}
  /\ messages' = PollUpdate(messages, Fetched(f))
  /\ seen' = IF Len(Fetched(f)) > Len(messages)
                  /\ ~(Ids(messages) \subseteq Ids(Fetched(f)))
               THEN seen \cup {"pollDrop"} ELSE seen
  /\ UNCHANGED <<wsVars, lsVars>>
  /\ UNCHANGED <<tenantSlug, visitor, config, conversation, isLoading,
                 isSending, error, prechatCompleted>>
  /\ UNCHANGED <<envVars, initPc, initConv, initHist, starts, sends>>
  /\ UNCHANGED <<backendVars, counters>>

\* loadMessages after its await
LoadApply(f) ==
  /\ f \in fetches /\ f.kind = "load"
  /\ fetches' = fetches \ {f}
  /\ messages' = Fetched(f)
  /\ UNCHANGED seen
  /\ UNCHANGED <<wsVars, lsVars>>
  /\ UNCHANGED <<tenantSlug, visitor, config, conversation, isLoading,
                 isSending, error, prechatCompleted>>
  /\ UNCHANGED <<envVars, initPc, initConv, initHist, starts, sends>>
  /\ UNCHANGED <<backendVars, counters>>

\* a getMessages request rejected: the poll ignores it, loadMessages logs it
FetchFail(f) ==
  /\ f \in fetches
  /\ fetches' = fetches \ {f}
  /\ UNCHANGED seen
  /\ UNCHANGED <<wsVars, lsVars>>
  /\ UNCHANGED <<storeVars, envVars, initPc, initConv, initHist, starts, sends>>
  /\ UNCHANGED <<backendVars, counters>>

(* ------------------------------- backend ------------------------------ *)
\* an operator (or bot) message is stored in a conversation of this visitor
AgentMessage(c) ==
  /\ c <= nConvs
  /\ nAgent < MaxAgentMsgs
  /\ nAgent' = nAgent + 1
  /\ \E t \in now .. MaxTime :
       /\ now' = t
       /\ server' = [server EXCEPT ![c] = Append(@, Msg(nextSrv, "operator", "reply", t))]
  /\ nextSrv' = nextSrv + 1
  /\ pushable' = IF OpenFor(c) THEN pushable \cup {nextSrv} ELSE pushable
  /\ UNCHANGED seen
  /\ UNCHANGED <<wsVars, lsVars>>
  /\ UNCHANGED <<storeVars, envVars, asyncVars, nConvs>>
  /\ UNCHANGED <<nextTmp, nStarts, nSends, srvOf, outcome, reqCount, tmpOf>>

(* ======================= WebSocketManager steps ====================== *)
WsConnect(id) ==
  /\ ConnectCall(id)
  /\ UNCHANGED syncVars

WsDisconnect ==
  /\ SetM(Disconnect(M))
  /\ wlast' = [op |-> "disconnect", id |-> 0, live |-> FALSE]
  /\ idle' = TRUE
  /\ UNCHANGED syncVars

\* the open event of socket s
SockOpen(s) ==
  /\ sockets[s].state = "connecting"
  /\ SetM(OnOpen([M EXCEPT !.sockets[s].state = "open"]))
  /\ wlast' = NoCall
  /\ UNCHANGED <<idle, syncVars>>

\* the close event of socket s after a clean close
SockClose(s) ==
  /\ sockets[s].state \in {"open", "closing"}
  /\ LET m == OnClose(Closed(M, s))
     IN  Within(m) /\ SetM(m)
  /\ wlast' = NoCall
  /\ UNCHANGED <<idle, syncVars>>

\* the connection of socket s failed: its error event, then its close event
SockFail(s) ==
  /\ sockets[s].state \in {"connecting", "open", "closing"}
  /\ LET m == OnClose(OnError(Closed(M, s)))
     IN  Within(m) /\ SetM(m)
  /\ wlast' = NoCall
  /\ UNCHANGED <<idle, syncVars>>

\* a reconnect timer fires
TimerFire(t) ==
  /\ t \in timers
  /\ \E throws \in BOOLEAN :
       LET m == OnReconnectTimer([M EXCEPT !.timers = @ \ {t}], throws)
       IN  Within(m) /\ SetM(m)
  /\ wlast' = NoCall
  /\ UNCHANGED <<idle, syncVars>>

\* the manager holds an open socket (isConnected)
CurrentOpen == ws # 0 /\ sockets[ws].state = "open"

\* the payloads the page sends
Payloads == {[type |-> "read"]}

\* wsManager.send(data)
WsSend(data) ==
  /\ SetM(Send(M, data))
  /\ wlast' = [op |-> "send", id |-> 0, live |-> CurrentOpen]
  /\ UNCHANGED <<idle, syncVars>>

\* wsManager.sendTyping(isTyping)
WsSendTyping(isTyping) ==
  /\ SetM(SendTyping(M, isTyping))
  /\ wlast' = [op |-> "sendTyping", id |-> 0, live |-> CurrentOpen]
  /\ UNCHANGED <<idle, syncVars>>

\* the events the backend pushes over a socket
WsEvents ==
  {[type |-> "message",
    data |-> [id |-> "m1", sender_type |-> "operator", content_type |-> "text",
              content |-> [text |-> "reply"], created_at |-> "t1"]],
   [type |-> "message",
    data |-> [id |-> "m2", sender_type |-> "bot", content_type |-> "image",
              content |-> [url |-> "u"], created_at |-> "t2"]],
   [type |-> "typing_start", data |-> [sender_type |-> "operator"]],
   [type |-> "conversation_closed", data |-> [reason |-> "resolved"]]}

\* the frames a socket delivers: an event as JSON text, or text that is no JSON
Text(event) == [json |-> TRUE, event |-> event]

InFrames == {Text(e) : e \in WsEvents} \cup {[json |-> FALSE]}

\* the message event of open socket s
SockFrame(s, frame) ==
  /\ sockets[s].state = "open"
  /\ SetM(OnMessage(M, frame))
  /\ wlast' = NoCall
  /\ UNCHANGED <<idle, syncVars>>

\* a tick of heartbeat interval p
PingTick(p) ==
  /\ p \in pings
  /\ SetM(Send(M, [type |-> "ping"]))
  /\ wlast' = NoCall
  /\ UNCHANGED <<idle, syncVars>>

\* new WebSocketManager()
ManagerInit ==
  /\ ws = 0 /\ conversationId = 0 /\ reconnectAttempts = 0
  /\ reconnectTimeout = 0 /\ pingTimeout = 0
  /\ isConnecting = FALSE /\ shouldReconnect = TRUE
  /\ sockets = [s \in 1 .. MaxSockets |-> NoSocket] /\ timers = {}
  /\ pings = {} /\ emitted = <<>> /\ wire = <<>> /\ fails = 0 /\ rfails = 0
  /\ wlast = NoCall /\ idle = FALSE

(* ------------------------------ the page ------------------------------ *)
\* ChatPage: what it renders from the store
hasConversation == conversation # NoConv

\* the spinner (App's while no config is loaded, ChatPage's afterwards)
Spinner == isLoading /\ ~hasConversation

\* useWidgetConfig: config?.isOnline ?? false (the configurations modelled are
\* online ones), config?.requireEmail || config?.requireName
isOnline == config # Null
requiresPrechat == config = FormConfig

\* needsPrechat without its hasConversation test
NeedsPrechatWithoutConversationTest == requiresPrechat /\ ~prechatCompleted

needsPrechat == requiresPrechat /\ ~prechatCompleted /\ ~hasConversation

\* ChatPage renders PrechatForm
FormShown == ~Spinner /\ isOnline /\ needsPrechat

\* ChatPage renders ChatMessages and MessageInput
ChatShown == ~Spinner /\ isOnline /\ ~needsPrechat

\* PrechatForm.handleSubmit: startConversation with the form's data (onComplete
\* runs when the request is settled, see StartOk and StartFail)
SubmitPrechat(name, email, initial) ==
  /\ FormShown
  /\ StartConversation(initial, name, email, TRUE)

\* MessageInput.handleSubmit with `text` in the input: sendTyping(false), then
\* sendMessage(text), which returns at once when there is no conversation
HandleSubmit(text) ==
  /\ ChatShown /\ ~isSending
  /\ SetM(SendTyping(M, FALSE))
  /\ wlast' = [op |-> "sendTyping", id |-> 0, live |-> CurrentOpen]
  /\ IF conversation = NoConv
       THEN /\ dropped < MaxDropped
            /\ dropped' = dropped + 1
            /\ UNCHANGED <<storeVars, envVars, asyncVars, backendVars, histVars>>
       ELSE /\ SendMessageStore(text)
            /\ UNCHANGED dropped
  /\ lastInput' = -1
  /\ UNCHANGED <<clock, typingTimers, typingTimeoutRef, stops, burst>>
  /\ UNCHANGED <<idle, items, slast, mode, loaderVars, gen, initReads, observed>>

\* the delay of the typing timer: 2000 ms, in units of 100 ms
TypingDelay == 20

\* handleChange without its clearTimeout
KeepTimeout(pending, ref) == pending

\* if (typingTimeoutRef.current) clearTimeout(typingTimeoutRef.current)
ClearTimeout(pending, ref) == pending \ {ref}

\* the timer of the last input change has not fired yet
TimerPending == typingTimeoutRef \in typingTimers

\* MessageInput.handleChange at the time `clock`: sendTyping(true), the
\* previous timer cleared, a new one set
HandleChange ==
  /\ ChatShown
  /\ clock + TypingDelay <= MaxClock
  /\ TimerPending => burst < MaxBurst
  /\ burst' = (IF TimerPending THEN burst + 1 ELSE 1)
  /\ SetM(SendTyping(M, TRUE))
  /\ wlast' = [op |-> "sendTyping", id |-> 0, live |-> CurrentOpen]
  /\ typingTimers' = ClearTimeout(typingTimers, typingTimeoutRef)
                        \cup {clock + TypingDelay}
  /\ typingTimeoutRef' = clock + TypingDelay
  /\ lastInput' = clock /\ stops' = 0
  /\ UNCHANGED <<idle, clock, mode, loaderVars, items, slast, gen, dropped, initReads, observed>>
  /\ UNCHANGED <<storeVars, envVars, asyncVars, backendVars, histVars>>

\* a typing timer falls due: sendTyping(false)
TypingTimerFire(due) ==
  /\ due \in typingTimers /\ due = clock
  /\ SetM(SendTyping(M, FALSE))
  /\ wlast' = [op |-> "sendTyping", id |-> 0, live |-> CurrentOpen]
  /\ typingTimers' = typingTimers \ {due}
  /\ stops' = stops + 1
  /\ UNCHANGED <<idle, clock, typingTimeoutRef, lastInput, burst>>
  /\ UNCHANGED <<mode, loaderVars, items, slast, gen, dropped, initReads, observed>>
  /\ UNCHANGED <<storeVars, envVars, asyncVars, backendVars, histVars>>

\* 100 ms pass; a timer that is due fires first
Tick ==
  /\ clock < MaxClock
  /\ \A due \in typingTimers : due > clock
  /\ clock' = clock + 1
  /\ UNCHANGED <<typingTimers, typingTimeoutRef, lastInput, stops, burst>>
  /\ UNCHANGED <<wsVars, mode, loaderVars, items, slast, gen, dropped, initReads, observed>>
  /\ UNCHANGED <<storeVars, envVars, asyncVars, backendVars, histVars>>

\* the data a page identifies the visitor with: a name, an e-mail or both
IdentifyData ==
  {[name |-> n, email |-> e] : n \in Names \cup {Absent}, e \in Emails \cup {Absent}}
    \ {[name |-> Absent, email |-> Absent]}

\* data.key read from an object that may not have the key
Read(value) == IF value = Absent THEN Null ELSE value

\* identifyVisitor(data): the object literal it hands to updateVisitor has
\* every key, with undefined for what data does not carry
IdentifyUpdates(data) == [name |-> Read(data.name), email |-> Read(data.email)]

\* the SDK's identify(data): identifyVisitor(data), then the store's
\* identify(data); each is an updateVisitor
Identify(data) ==
  /\ gen + 2 <= MaxVisitors
  /\ \E throws \in Throws :
       LET sdk == UpdateVisitor(items, gen, now, IdentifyUpdates(data),
                                throws, throws, throws)
           store == UpdateVisitor(sdk.ls, sdk.gen, now, data, throws, throws, throws)
       IN  visitor' = store.visitor /\ items' = store.ls /\ gen' = store.gen
  /\ UNCHANGED seen
  /\ UNCHANGED <<wsVars, slast, pageVars, dropped, initReads, observed>>
  /\ UNCHANGED <<tenantSlug, config, conversation, messages, isLoading, isSending,
                 error, prechatCompleted>>
  /\ UNCHANGED <<envVars, asyncVars, backendVars, counters>>

\* clearVisitor()
ClearVisitor ==
  /\ \E throws \in Throws : items' = StorageRemove(items, "visitor", throws).ls
  /\ UNCHANGED <<wsVars, slast, pageVars, gen, dropped, initReads, observed>>
  /\ UNCHANGED <<storeVars, envVars, asyncVars, backendVars, histVars>>

(* --------------------------- specifications --------------------------- *)
\* The whole life of a session, from the store as constructed.
(* ------------------------- the loader (sdk/loader.ts) ----------------- *)
\* everything but the host page's loader state
widgetVars == <<storeVars, envVars, asyncVars, backendVars, histVars, wsVars,
                items, slast, mode, inputVars, gen, dropped, initReads, observed>>

\* the commands a page issues: omni(method, ...)
Methods == {"init", "identify", "open"}

\* the loader's closure variables
L == [isLoaded |-> isLoaded, pendingCommands |-> pendingCommands,
      executed |-> executed, scripts |-> scripts]

SetL(l) ==
  /\ isLoaded' = l.isLoaded /\ pendingCommands' = l.pendingCommands
  /\ executed' = l.executed /\ scripts' = l.scripts

\* executeCommand(method, args): held back until the widget bundle has
\* loaded unless it is init; init calls loadWidget, which inserts widget.js
ExecuteCommand(l, cmd) ==
  IF ~l.isLoaded /\ cmd.method # "init"
    THEN [l EXCEPT !.pendingCommands = Append(@, cmd)]
    ELSE IF cmd.method = "init"
      THEN [l EXCEPT !.executed = Append(@, cmd), !.scripts = @ + 1]
      ELSE [l EXCEPT !.executed = Append(@, cmd)]

\* cmds.forEach(cmd => executeCommand(cmd.method, cmd.args)): the elements
\* present when the loop starts
RECURSIVE ForEach(_, _)
ForEach(l, cmds) ==
  IF cmds = <<>> THEN l ELSE ForEach(ExecuteCommand(l, Head(cmds)), Tail(cmds))

\* processQueue(): the queue of window.omni, then pendingCommands
ProcessQueue(l, queue) ==
  LET afterQueue == ForEach(l, queue)
  IN  ForEach(afterQueue, afterQueue.pendingCommands)

\* window.omni.q: the stub's array; the function the loader installs has no
\* q property (undefined, read as no commands)
WindowOmniQ(fn, queue) == IF fn = "stub" THEN queue ELSE <<>>

\* the page calls omni(method, ...) before loader.js has run: the snippet's
\* stub pushes {method, args} to omni.q
StubCall(method) ==
  /\ omni = "stub" /\ issued < MaxCmds
  /\ issued' = issued + 1
  /\ omniQ' = Append(omniQ, [method |-> method, n |-> issued + 1])
  /\ UNCHANGED <<omni, isLoaded, pendingCommands, executed, scripts>>
  /\ UNCHANGED widgetVars

\* loader.js runs: window.omni is replaced, then `if (window.omni.q)
\* processQueue()`
LoaderRun ==
  /\ omni = "stub"
  /\ omni' = "loader"
  /\ LET l == IF WindowOmniQ(omni', omniQ) # <<>>
                THEN ProcessQueue(L, WindowOmniQ(omni', omniQ)) ELSE L
     IN  l.scripts <= MaxScripts /\ SetL(l)
  /\ UNCHANGED <<omniQ, issued>>
  /\ UNCHANGED widgetVars

\* the page calls omni(method, ...) after loader.js has run
OmniCall(method) ==
  /\ omni = "loader" /\ issued < MaxCmds
  /\ issued' = issued + 1
  /\ LET l == ExecuteCommand(L, [method |-> method, n |-> issued + 1])
     IN  l.scripts <= MaxScripts /\ SetL(l)
  /\ UNCHANGED <<omni, omniQ>>
  /\ UNCHANGED widgetVars

\* script.onload of a widget.js element: isLoaded = true; processQueue()
ScriptLoad ==
  /\ scripts > 0
  /\ LET l == ProcessQueue([L EXCEPT !.isLoaded = TRUE, !.scripts = @ - 1],
                           WindowOmniQ(omni, omniQ))
     IN  l.scripts <= MaxScripts /\ Len(l.executed) <= 2 * MaxCmds /\ SetL(l)
  /\ UNCHANGED <<omni, omniQ, issued>>
  /\ UNCHANGED widgetVars

\* script.onerror of a widget.js element
ScriptError ==
  /\ scripts > 0
  /\ scripts' = scripts - 1
  /\ UNCHANGED <<omni, omniQ, isLoaded, pendingCommands, executed, issued>>
  /\ UNCHANGED widgetVars

LoaderNext ==
  \/ \E method \in Methods : StubCall(method)
  \/ LoaderRun
  \/ \E method \in Methods : OmniCall(method)
  \/ ScriptLoad
  \/ ScriptError

SessionNext ==
  \/ InitStart
  \/ InitConfigOk(PlainConfig)
  \/ InitConfigFail
  \/ InitHistoryServe
  \/ InitHistoryOk
  \/ InitHistoryFail
  \/ \E initial \in {Null, "Hello"} : StartConversation(initial, Null, Null, FALSE)
  \/ \E r \in starts : StartServe(r)
  \/ \E r \in starts : StartOk(r)
  \/ \E r \in starts : StartFail(r)
  \/ \E s \in DOMAIN sockets : SockOpen(s)
  \/ \E s \in DOMAIN sockets : SockClose(s)
  \/ \E s \in DOMAIN sockets : SockFail(s)
  \/ \E t \in timers : TimerFire(t)

SessionInit == SyncInit /\ ManagerInit

SessionSpec == SessionInit /\ [][SessionNext]_vars

\* the store's init and startConversation with the polling startConversation
\* starts
PollingNext ==
  \/ InitStart
  \/ InitConfigOk(PlainConfig)
  \/ InitConfigFail
  \/ InitHistoryServe
  \/ InitHistoryOk
  \/ InitHistoryFail
  \/ \E initial \in {Null, "Hello"} : StartConversation(initial, Null, Null, FALSE)
  \/ \E r \in starts : StartServe(r)
  \/ \E r \in starts : StartOk(r)
  \/ \E r \in starts : StartFail(r)
  \/ PollTick
  \/ \E f \in fetches : PollApply(f)
  \/ \E f \in fetches : FetchFail(f)

PollingInit == SyncInit /\ ManagerInit

PollingSpec == PollingInit /\ [][PollingNext]_vars

\* The sessions init and startConversation establish: a conversation resumed
\* by init (socket requested, no polling, the fetched history as the list) or
\* one startConversation created (socket and polling, the list empty or holding
\* the initial message under a client-generated id); init registered its
\* listeners.
Established ==
  /\ slast = NoStorageCall /\ mode = "works" /\ gen = 1 /\ InputInit
  /\ items = [k \in Keys |->
                IF k = "visitor" THEN Stringify(SavedVisitor)
                ELSE IF k = "conversation" THEN Stringify(SavedConv)
                ELSE Stringify(TRUE)]
  /\ dropped = 0
  /\ initReads = <<"visitor", "conversation", "prechat_completed">>
  /\ tenantSlug = "tenant" /\ visitor = SavedVisitor
  /\ config = PlainConfig /\ error = Null /\ listeners = 1
  /\ conversation = SavedConv
  /\ isLoading = FALSE /\ isSending = FALSE
  /\ prechatCompleted = TRUE
  /\ initPc = "done" /\ initHist = -1
  /\ starts = {} /\ sends = {} /\ fetches = {}
  /\ nConvs = 1 /\ pushable = {} /\ now = 0
  /\ nSends = 0 /\ nAgent = 0
  /\ srvOf = [k \in 1 .. MaxSends |-> 0]
  /\ outcome = [k \in 1 .. MaxSends |-> "none"]
  /\ reqCount = [k \in 1 .. MaxSends |-> 0]
  /\ tmpOf = [k \in 1 .. MaxSends |-> 0]
  /\ seen = {}
  /\ \/ \* init resumed the persisted conversation
        /\ pollConv = NoConv /\ initConv = SavedConv
        /\ \E hist \in {<<>>, SavedHistory} :
             /\ server = [c \in ConvIds |-> IF c = SavedConv THEN hist ELSE <<>>]
             /\ messages = hist
        /\ nextSrv = Len(messages) + 1 /\ nextTmp = 0 /\ nStarts = 0
        /\ observed = <<Snap(SavedConv, TRUE, FALSE), Snap(SavedConv, TRUE, TRUE),
                        Snap(SavedConv, FALSE, TRUE)>>
     \/ \* startConversation created it
        /\ pollConv = SavedConv /\ initConv = NoConv /\ nStarts = 1
        /\ \/ /\ server = [c \in ConvIds |-> <<>>]
              /\ messages = <<>>
              /\ nextSrv = 1 /\ nextTmp = 0
              /\ observed = <<Snap(SavedConv, TRUE, FALSE),
                              Snap(SavedConv, FALSE, TRUE)>>
           \/ /\ server = [c \in ConvIds |->
                             IF c = SavedConv
                               THEN <<Msg(1, "customer", "Hello", 0)>> ELSE <<>>]
              /\ messages = <<Msg(TmpId(1), "customer", "Hello", 0)>>
              /\ nextSrv = 2 /\ nextTmp = 1
              /\ observed = <<Snap(SavedConv, TRUE, FALSE),
                              Snap(SavedConv, TRUE, FALSE),
                              Snap(SavedConv, FALSE, TRUE)>>

\* The message synchronizer within an established session.
SyncNext ==
  \/ \E text \in Texts : SendMessage(text)
  \/ \E r \in sends : SendServe(r)
  \/ \E r \in sends : SendOk(r)
  \/ \E r \in sends : SendFail(r)
  \/ \E c \in ConvIds : \E m \in ServerMsgs(c) : AddMessage(m)
  \/ PollTick
  \/ LoadMessages
  \/ \E f \in fetches : PollApply(f)
  \/ \E f \in fetches : LoadApply(f)
  \/ \E f \in fetches : FetchFail(f)
  \/ \E c \in ConvIds : AgentMessage(c)

\* the manager after connect(SavedConv) and the socket's open event
ManagerConnected ==
  /\ ws = 1 /\ conversationId = SavedConv /\ reconnectAttempts = 0
  /\ reconnectTimeout = 0 /\ pingTimeout = 1
  /\ isConnecting = FALSE /\ shouldReconnect = TRUE
  /\ sockets = [s \in 1 .. MaxSockets |->
                  IF s = 1 THEN [conv |-> SavedConv, state |-> "open", retry |-> FALSE]
                           ELSE NoSocket]
  /\ timers = {}
  /\ pings = {1} /\ emitted = <<[event |-> "connected", data |-> NoData]>>
  /\ wire = <<>> /\ fails = 0 /\ rfails = 0
  /\ wlast = NoCall /\ idle = FALSE

SyncEstablished == Established /\ ManagerConnected

SyncSpec == SyncEstablished /\ [][SyncNext]_vars

\* The synchronizer as the widget's components drive it: sends, pushes and
\* polls.  No component calls loadMessages.
IncomingNext ==
  \/ \E text \in Texts : SendMessage(text)
  \/ \E r \in sends : SendServe(r)
  \/ \E r \in sends : SendOk(r)
  \/ \E r \in sends : SendFail(r)
  \/ \E c \in ConvIds : \E m \in ServerMsgs(c) : AddMessage(m)
  \/ PollTick
  \/ \E f \in fetches : PollApply(f)
  \/ \E f \in fetches : FetchFail(f)
  \/ \E c \in ConvIds : AgentMessage(c)

IncomingSpec == SyncEstablished /\ [][IncomingNext]_vars

\* A page load and what the visitor does on the page: whatever an earlier
\* visit left in storage (entries present, missing or unparsable), storage
\* working or disabled, either configuration.
EntryStates == {"missing", "unparsable", "saved"}

\* the text under a key: none, text that is not JSON, or the value's JSON
Entry(state, value) ==
  IF state = "missing" THEN NoItem
  ELSE IF state = "unparsable" THEN Garbage ELSE Stringify(value)

BootInit ==
  /\ mode \in Modes
  /\ \E v \in EntryStates, c \in EntryStates, p \in {"missing", "saved"} :
       /\ items = [k \in Keys |->
                     IF k = "visitor" THEN Entry(v, SavedVisitor)
                     ELSE IF k = "conversation" THEN Entry(c, SavedConv)
                     ELSE Entry(p, TRUE)]
       /\ gen = (IF v = "saved" THEN 1 ELSE 0)
  /\ StoreInit
  /\ ManagerInit

BootNext ==
  \/ InitStart
  \/ \E cfg \in Configs : InitConfigOk(cfg)
  \/ InitConfigFail
  \/ InitHistoryServe
  \/ InitHistoryOk
  \/ InitHistoryFail
  \/ \E name \in Names \cup {Null}, email \in Emails \cup {Null},
        initial \in {Null, "Hello"} :
       SubmitPrechat(name, email, initial)
  \/ \E r \in starts : StartServe(r)
  \/ \E r \in starts : StartOk(r)
  \/ \E r \in starts : StartFail(r)
  \/ \E text \in Texts : HandleSubmit(text)
  \/ \E r \in sends : SendServe(r)
  \/ \E r \in sends : SendOk(r)
  \/ \E r \in sends : SendFail(r)
  \/ \E data \in IdentifyData : Identify(data)
  \/ ClearVisitor

BootSpec == BootInit /\ [][BootNext]_vars

\* the page with useMessages' loadMessages as well
OpsNext ==
  \/ InitStart
  \/ \E cfg \in Configs : InitConfigOk(cfg)
  \/ InitConfigFail
  \/ InitHistoryServe
  \/ InitHistoryOk
  \/ InitHistoryFail
  \/ \E name \in Names \cup {Null}, email \in Emails \cup {Null},
        initial \in {Null, "Hello"} :
       SubmitPrechat(name, email, initial)
  \/ \E r \in starts : StartServe(r)
  \/ \E r \in starts : StartOk(r)
  \/ \E r \in starts : StartFail(r)
  \/ \E text \in Texts : HandleSubmit(text)
  \/ \E r \in sends : SendServe(r)
  \/ \E r \in sends : SendOk(r)
  \/ \E r \in sends : SendFail(r)
  \/ LoadMessages
  \/ \E f \in fetches : LoadApply(f)
  \/ \E f \in fetches : FetchFail(f)

OpsSpec == BootInit /\ [][OpsNext]_vars

\* the page before the widget exists: the snippet has run
LoaderInit == BootInit /\ mode = "works"

LoaderSpec == LoaderInit /\ [][LoaderNext]_vars

\* The message input of an established session with its socket open: input
\* changes, the typing timer, a submit (its request stays in flight), and the
\* socket closing.
TypingNext ==
  \/ HandleChange
  \/ \E due \in typingTimers : TypingTimerFire(due)
  \/ Tick
  \/ \E text \in Texts : HandleSubmit(text)
  \/ \E s \in DOMAIN sockets : SockClose(s)

TypingInit == SyncEstablished

TypingSpec == TypingInit /\ [][TypingNext]_vars

\* The transport manager and its sockets; the store is as constructed.
WsNext ==
  \/ \E id \in ConvIds : WsConnect(id)
  \/ WsDisconnect
  \/ \E s \in DOMAIN sockets : SockOpen(s)
  \/ \E s \in DOMAIN sockets : SockClose(s)
  \/ \E s \in DOMAIN sockets : SockFail(s)
  \/ \E t \in timers : TimerFire(t)

WsInit ==
  /\ SyncInit /\ storedConv = NoConv /\ storedPrechat = FALSE
  /\ ManagerInit

WsSpec == WsInit /\ [][WsNext]_vars

\* The manager with the traffic over its sockets: the page sends, the
\* heartbeat ticks.  Runs of consecutive connection failures are kept short.
FewFails == fails' <= MaxTrafficFails

TrafficNext ==
  \/ \E id \in ConvIds : WsConnect(id) /\ FewFails
  \/ WsDisconnect
  \/ \E s \in DOMAIN sockets : SockOpen(s)
  \/ \E s \in DOMAIN sockets : SockClose(s) /\ FewFails
  \/ \E s \in DOMAIN sockets : SockFail(s) /\ FewFails
  \/ \E t \in timers : TimerFire(t) /\ FewFails
  \/ \E data \in Payloads : WsSend(data)
  \/ \E isTyping \in BOOLEAN : WsSendTyping(isTyping)
  \/ \E p \in pings : PingTick(p)
  \/ \E s \in DOMAIN sockets, frame \in InFrames : SockFrame(s, frame)

TrafficInit == WsInit

TrafficSpec == TrafficInit /\ [][TrafficNext]_vars

(* ============================== storage ============================== *)
\* storage.get(key); localStorage may throw (disabled, SecurityError)
Get(key) ==
  /\ \E throws \in BOOLEAN :
       LET r == StorageGet(items, key, throws)
       IN  slast' = [op |-> "get", key |-> key, threw |-> r.threw,
                     value |-> r.value,
                     failed |-> GetBody(items, key, throws).threw,
                     held |-> items[key]]
  /\ UNCHANGED <<items, pageVars, gen, dropped, initReads, observed>>
  /\ UNCHANGED <<storeVars, envVars, asyncVars, backendVars, histVars, wsVars>>

\* storage.set(key, value); setItem may throw (quota exceeded, disabled)
Set(key, value) ==
  /\ \E throws \in BOOLEAN :
       LET r == StorageSet(items, key, value, throws)
       IN  /\ items' = r.ls
           /\ slast' = [op |-> "set", key |-> key, threw |-> r.out.threw,
                         value |-> r.out.value, failed |-> throws,
                         held |-> items[key]]
  /\ UNCHANGED <<pageVars, gen, dropped, initReads, observed>>
  /\ UNCHANGED <<storeVars, envVars, asyncVars, backendVars, histVars, wsVars>>

\* storage.remove(key)
Remove(key) ==
  /\ \E throws \in BOOLEAN :
       LET r == StorageRemove(items, key, throws)
       IN  /\ items' = r.ls
           /\ slast' = [op |-> "remove", key |-> key, threw |-> r.out.threw,
                         value |-> r.out.value, failed |-> throws,
                         held |-> items[key]]
  /\ UNCHANGED <<pageVars, gen, dropped, initReads, observed>>
  /\ UNCHANGED <<storeVars, envVars, asyncVars, backendVars, histVars, wsVars>>

\* another script of the page, or the user, writes text under a key
ForeignWrite(key, text) ==
  /\ items' = [items EXCEPT ![key] = text]
  /\ slast' = NoStorageCall
  /\ UNCHANGED <<pageVars, gen, dropped, initReads, observed>>
  /\ UNCHANGED <<storeVars, envVars, asyncVars, backendVars, histVars, wsVars>>

StorageNext ==
  \/ \E key \in Keys : Get(key)
  \/ \E key \in Keys, value \in Values : Set(key, value)
  \/ \E key \in Keys : Remove(key)
  \/ \E key \in Keys, text \in ItemTexts : ForeignWrite(key, text)

StorageStart == WsInit

StorageSpec == StorageStart /\ [][StorageNext]_vars

(* ======================= message synchronizer ======================== *)
Confirmed(k) == outcome[k] \in {"inPlace", "absent"}

\* the entries of send k: its optimistic entry or the entry under its server id
EntriesOf(ms, k) ==
  {i \in DOMAIN ms : \/ tmpOf[k] # 0 /\ ms[i].id = tmpOf[k]
                     \/ srvOf[k] # 0 /\ ms[i].id = srvOf[k]}

\* the message the backend stored under id
ServerMsg(id) == CHOOSE m \in UNION {ServerMsgs(c) : c \in ConvIds} : m.id = id

\* C1: in every reachable state the message list holds each id at most once,
\* for every interleaving of sends, confirmations, pushes and poll refreshes.
C1_NoDuplicateIds ==
  \A i, j \in DOMAIN messages : messages[i].id = messages[j].id => i = j

\* C2: applying a send's success response replaces the id and createdAt of the
\* entry carrying the temporary id by the server-issued id and timestamp, at the
\* same position; the length and every other entry are unchanged.
C2_ConfirmReplacesInPlace ==
  [][\A r \in sends :
       SendOk(r) =>
         /\ Len(messages') = Len(messages)
         /\ \A i \in DOMAIN messages :
              IF messages[i].id = r.tmp
                THEN /\ messages'[i].id = srvOf[r.k]
                     /\ messages'[i].createdAt = ServerMsg(srvOf[r.k]).createdAt
                     /\ messages'[i].text = messages[i].text
                     /\ messages'[i].senderType = messages[i].senderType
                ELSE messages'[i] = messages[i]]_vars

\* C2 witness: a confirmation found its optimistic entry and replaced it in
\* the middle of the list (a later entry follows it).
C2_Witness ==
  \E k \in 1 .. MaxSends : \E i \in DOMAIN messages :
    /\ outcome[k] = "inPlace"
    /\ messages[i].id = srvOf[k]
    /\ i < Len(messages)

\* C3: when a send request fails, the optimistic message with that temporary
\* id is removed, the other entries keep their relative order, isSending
\* becomes false, an error is set, and no further request is issued for that
\* message.
C3_FailedSendRolledBack ==
  [][/\ \A r \in sends :
          SendFail(r) =>
            /\ messages' = SelectSeq(messages, LAMBDA m : m.id # r.tmp)
            /\ r.tmp \notin Ids(messages')
            /\ isSending' = FALSE
            /\ error' # Null
            /\ \A q \in sends' : q.k # r.k
     /\ \A k \in 1 .. MaxSends :
          outcome[k] = "failed" =>
            /\ reqCount'[k] = reqCount[k]
            /\ \A q \in sends' : q.k # k]_vars

\* C3 witness: a send failed while the list held other entries; its optimistic
\* entry is gone, the others are still there.
C3_Witness ==
  \E k \in 1 .. MaxSends :
    /\ outcome[k] = "failed"
    /\ tmpOf[k] \notin Ids(messages)
    /\ Len(messages) >= 2
    /\ ~isSending /\ error # Null

\* C4: if a send was confirmed with server id S and timestamp t1 and a duplex
\* push of message S arrives after the confirmation was applied, the list then
\* holds exactly one message with id S, with the sent content and timestamp t1.
C4_PushAfterConfirmation ==
  [][\A k \in 1 .. MaxSends : \A c \in ConvIds : \A m \in ServerMsgs(c) :
       (Confirmed(k) /\ m.id = srvOf[k] /\ AddMessage(m)) =>
         /\ Count(messages', srvOf[k]) = 1
         /\ \A i \in DOMAIN messages' :
              messages'[i].id = srvOf[k] =>
                /\ messages'[i].text = m.text
                /\ messages'[i].createdAt = m.createdAt]_vars

\* how a message-by-message merge of a fetched list would leave the list
RECURSIVE MergeInto(_, _)
MergeInto(ms, fetched) ==
  IF fetched = <<>> THEN ms
  ELSE MergeInto(IF Head(fetched).id \in Ids(ms) THEN ms ELSE Append(ms, Head(fetched)),
                 Tail(fetched))

IsPrefix(a, b) == Len(a) <= Len(b) /\ SubSeq(b, 1, Len(a)) = a

PushDedup ==
  \A c \in ConvIds : \A m \in ServerMsgs(c) :
    AddMessage(m) =>
      messages' = IF m.id \in Ids(messages) THEN messages ELSE Append(messages, m)

\* C5 as stated: a message arriving via the duplex transport or via a poll is
\* accepted only if no existing entry shares its id; a message whose id exists
\* leaves the sequence unchanged (so the list a poll leaves is the old list,
\* followed by fetched messages whose ids were new).
C5_IncomingDedupAsStated ==
  [][/\ PushDedup
     /\ \A f \in fetches :
          PollApply(f) =>
            /\ IsPrefix(messages, messages')
            /\ IsPrefix(messages', MergeInto(messages, Fetched(f)))]_vars

\* C5 amended: a pushed message is appended only if no entry shares its id and
\* otherwise leaves the sequence unchanged; a poll leaves the sequence
\* unchanged or, when the fetched list is longer than the local one, replaces
\* it wholesale by the fetched list; no fetched id gains a second entry.
C5_IncomingDedup ==
  [][/\ PushDedup
     /\ \A f \in fetches :
          PollApply(f) =>
            /\ messages' = IF Len(Fetched(f)) > Len(messages)
                             THEN Fetched(f) ELSE messages
            /\ \A id \in Ids(Fetched(f)) :
                 Count(messages', id) <= 1 \/ Count(messages', id) <= Count(messages, id)]_vars

\* C5 witness: a push carrying an id already in the list was delivered, and a
\* poll replaced a list holding entries the fetched list lacks.
C5_Witness == seen = {"dupPush", "pollDrop"}

\* C6: in every reachable state the list is non-decreasing in createdAt.
C6_MonotoneCreatedAt ==
  \A i \in DOMAIN messages :
    i < Len(messages) => messages[i].createdAt <= messages[i + 1].createdAt

\* C7: if send A was issued before send B, then whenever both are present (as
\* optimistic or confirmed entries) A's entry precedes B's; and a confirmed
\* entry takes the position its optimistic counterpart held.
C7_SendOrderKept ==
  [][/\ \A a, b \in 1 .. MaxSends :
          a < b => \A i \in EntriesOf(messages', a) : \A j \in EntriesOf(messages', b) : i < j
     /\ \A r \in sends :
          SendOk(r) => \A i \in DOMAIN messages :
                         messages[i].id = r.tmp => messages'[i].id = r.srv]_vars

(* ========================= transport manager ========================= *)
LiveSockets(id) ==
  {s \in DOMAIN sockets : sockets[s].conv = id
                          /\ sockets[s].state \in {"connecting", "open"}}

envWs == <<sockets, timers, pings>>

\* C8: at any time at most one socket per conversation id is live (connecting
\* or open), for every sequence of connect, disconnect, socket events and
\* reconnect-timer firings.
C8_OneLiveSocketPerConversation ==
  \A id \in ConvIds : Cardinality(LiveSockets(id)) <= 1

\* C9: connect(id) called while the manager is connecting or open for the same
\* id changes no manager state: no socket is created or closed, the retry
\* counter and the timers are untouched.
C9_ConnectSameIdIsNoOp ==
  [][\A id \in ConvIds :
       (LiveFor(id) /\ WsConnect(id)) =>
         /\ UNCHANGED <<mgrVars, envWs>>
         /\ emitted' = <<>>]_vars

\* C9 witness: connect(id) was called while the manager's socket for id was
\* open (not merely connecting).
C9_Witness ==
  /\ wlast.op = "connect" /\ wlast.live
  /\ LiveFor(wlast.id) /\ sockets[ws].state = "open"

\* C10: connect(id) called in any state other than connecting/open for that
\* same id tears down the existing connection, if any, and starts a new
\* connection attempt for id.
C10_ConnectOtherwiseReconnects ==
  [][\A id \in ConvIds :
       (~LiveFor(id) /\ WsConnect(id)) =>
         /\ conversationId' = id /\ shouldReconnect'
         /\ ws # 0 => sockets'[ws].state \notin {"connecting", "open"}
         /\ \/ /\ ws' # 0 /\ ws' # ws /\ sockets[ws'] = NoSocket
               /\ sockets'[ws'].conv = id /\ sockets'[ws'].state = "connecting"
            \/ \* the WebSocket constructor threw: a reconnect is scheduled
               /\ \E t \in timers' \ timers : t.id = reconnectTimeout']_vars

\* the manager's current connection is open

\* C11: every successful open resets the retry counter to 0 and starts a
\* heartbeat; in every reachable state exactly one heartbeat timer is active
\* if the manager's current connection is open, and none otherwise.
C11_OneHeartbeatWhileOpen ==
  /\ [](Cardinality(pings) = IF CurrentOpen THEN 1 ELSE 0)
  /\ [][\A s \in DOMAIN sockets :
          SockOpen(s) => /\ reconnectAttempts' = 0
                         /\ pingTimeout' \in pings' \ pings]_vars

\* the delay the backoff rule gives the reconnect scheduled after the n-th
\* consecutive failure
BackoffOf(n) == Min(1000 * Pow2(n - 1), 30000)

\* a socket that the manager had not closed fails or is dropped
FailureOf(s) ==
  sockets[s].state \in {"connecting", "open"} /\ (SockClose(s) \/ SockFail(s))

\* C12: after N consecutive connection failures since the last successful
\* open or connect call, the reconnect scheduled on the N-th failure has the
\* delay min(1000 * 2^(N-1), 30000) ms: 1s, 2s, 4s, 8s, 16s, then 30s.
C12_BackoffDelays ==
  [][\A s \in DOMAIN sockets :
       FailureOf(s) =>
         \A t \in timers' \ timers : t.delay = BackoffOf(fails')]_vars

\* the events the step emitted include e
Emitted(e) == \E i \in DOMAIN emitted' : emitted'[i].event = e

\* the step constructs a socket
SocketCreated ==
  \E s \in DOMAIN sockets : sockets[s] = NoSocket /\ sockets'[s] # NoSocket

\* the reconnect budget is used up: maxReconnectAttempts reconnect attempts in
\* a row failed
Exhausted(n) == n >= maxReconnectAttempts

\* C13: after maxAttempts (10) consecutive failed reconnect attempts the
\* manager emits reconnect_failed; from then until connect is called again it
\* schedules no reconnect timer and creates no socket; reconnect_failed is
\* not emitted before the budget is exhausted.
C13_GivesUpAfterMaxAttempts ==
  [][/\ (rfails' = rfails + 1 /\ Exhausted(rfails')) =>
          Emitted("reconnect_failed") /\ timers' \subseteq timers
     /\ Emitted("reconnect_failed") => Exhausted(rfails')
     /\ (Exhausted(rfails) /\ wlast'.op # "connect") =>
          timers' \subseteq timers /\ ~SocketCreated]_vars

\* the last step emitted reconnect_failed
GaveUp == \E i \in DOMAIN emitted : emitted[i].event = "reconnect_failed"

\* C14: after reconnect_failed was emitted for conversation id, an explicit
\* connect(id) re-arms the retries: it starts a new connection attempt for id
\* with the retry counter at 0.
C14_ConnectRearmsRetries ==
  [][\A id \in ConvIds :
       (GaveUp /\ conversationId = id /\ WsConnect(id)) =>
         /\ conversationId' = id /\ shouldReconnect'
         /\ reconnectAttempts' = 0
         /\ \/ \E s \in DOMAIN sockets :
                 /\ sockets[s] = NoSocket
                 /\ sockets'[s].conv = id /\ sockets'[s].state = "connecting"
            \/ \* the WebSocket constructor threw: a reconnect is scheduled
               \E t \in timers' \ timers : t.id = reconnectTimeout']_vars

\* C15: after disconnect() returns the manager is idle: shouldReconnect is
\* false, it holds no socket and no conversation id, the retry counter is 0
\* and it is not marked connecting; from then until the next connect call no
\* socket is created and no reconnecting event is emitted, whatever socket
\* events or timers fire.
C15_DisconnectLeavesIdle ==
  [][/\ WsDisconnect =>
          /\ ~shouldReconnect' /\ ws' = 0 /\ conversationId' = 0
          /\ reconnectAttempts' = 0 /\ ~isConnecting'
     /\ (idle /\ idle') => ~SocketCreated /\ ~Emitted("reconnecting")]_vars

\* The widget session in which the host also calls disconnect() on the
\* manager at any moment.
TeardownNext == SessionNext \/ WsDisconnect

TeardownInit == SessionInit

TeardownSpec == TeardownInit /\ [][TeardownNext]_vars

\* C16: after disconnect() no heartbeat interval, no reconnect timer and no
\* poll interval remains pending.
C16_DisconnectCancelsTimers ==
  [][WsDisconnect => pings' = {} /\ timers' = {} /\ pollConv' = NoConv]_vars

\* C17: send(payload) and sendTyping(flag) called while the connection is not
\* open hand nothing to a socket and leave the manager as it was; nothing is
\* queued: a frame reaches a socket only in the step of a send, sendTyping or
\* heartbeat tick made while the connection is open, and it is that call's
\* own payload (no opening socket flushes an earlier one).
SendStep(data) ==
  \/ data \in Payloads /\ WsSend(data)
  \/ \E b \in BOOLEAN : data = TypingFrame(b) /\ WsSendTyping(b)
  \/ data = [type |-> "ping"] /\ \E p \in pings : PingTick(p)

Frames == Payloads \cup {TypingFrame(b) : b \in BOOLEAN}
            \cup {[type |-> "ping"]}

C17_SendWhileNotOpenDrops ==
  [][/\ \A data \in Frames :
          (SendStep(data) /\ ~CurrentOpen) =>
             /\ wire' = <<>>
             /\ UNCHANGED <<mgrVars, sockets, timers, pings>>
     /\ wire' # <<>> =>
          /\ CurrentOpen
          /\ \E data \in Frames :
               SendStep(data) /\ wire' = <<[sock |-> ws, data |-> data]>>]_vars

C17_Witness ==
  /\ wlast.op \in {"send", "sendTyping"} /\ ~wlast.live
  /\ \E s \in DOMAIN sockets : sockets[s].state = "connecting"

\* C18: a failure while constructing the socket is handled like the close of
\* a connection: from any state of the manager, a connect call or a reconnect
\* timer whose constructor throws leaves the manager as the same step followed
\* by the close of the socket it would have created: same new timer delays,
\* same attempt and failure counts, same flags, and a socket held in the one
\* case exactly if one is held in the other.
Created(m) ==
  m.ws # 0 /\ sockets[m.ws] = NoSocket /\ m.sockets[m.ws].state = "connecting"

ThenClosed(m) == IF Created(m) THEN OnClose(Closed(m, m.ws)) ELSE m

NewDelays(m) == {t.delay : t \in m.timers \ timers}

SameAccounting(a, b) ==
  /\ NewDelays(a) = NewDelays(b)
  /\ a.reconnectAttempts = b.reconnectAttempts
  /\ a.fails = b.fails /\ a.rfails = b.rfails
  /\ a.isConnecting = b.isConnecting /\ a.shouldReconnect = b.shouldReconnect
  /\ a.conversationId = b.conversationId

SameManager(a, b) ==
  /\ SameAccounting(a, b)
  /\ (a.ws = 0) = (b.ws = 0)
  /\ Cardinality(a.pings) = Cardinality(b.pings)
  /\ (a.pingTimeout = 0) = (b.pingTimeout = 0)

ThrowVsClose(Same(_, _)) ==
  /\ \A id \in ConvIds :
       LET a == Connect(M, id, TRUE)
           b == ThenClosed(Connect(M, id, FALSE))
       IN  (Within(a) /\ Within(b)) => Same(a, b)
  /\ \A t \in timers :
       LET a == OnReconnectTimer([M EXCEPT !.timers = @ \ {t}], TRUE)
           b == ThenClosed(OnReconnectTimer([M EXCEPT !.timers = @ \ {t}], FALSE))
       IN  (Within(a) /\ Within(b)) => Same(a, b)

C18_ThrowHandledLikeClose == ThrowVsClose(SameManager)

\* C19: for every event a socket delivers the manager emits the raw event
\* under the event's type; for an event of type message it then emits exactly
\* one new_message whose Message has the event's id, sender type, content
\* type, content and creation time; for any other type it emits nothing more.
C19_InboundEventsReemitted ==
  [][\A s \in DOMAIN sockets, e \in WsEvents :
       SockFrame(s, Text(e)) =>
         emitted' =
           IF e.type = "message"
             THEN <<[event |-> "message", data |-> e.data],
                    [event |-> "new_message",
                     data |-> [id |-> e.data.id,
                               senderType |-> e.data.sender_type,
                               contentType |-> e.data.content_type,
                               content |-> e.data.content,
                               createdAt |-> e.data.created_at]]>>
             ELSE <<[event |-> e.type, data |-> e.data]>>]_vars

C19_Witness ==
  /\ Len(emitted) = 2
  /\ emitted[1].event = "message" /\ emitted[2].event = "new_message"
  /\ emitted[2].data.senderType = "bot"

\* C20: storage.get, storage.set and storage.remove never let an exception
\* reach the caller, whether localStorage throws or holds unparsable text;
\* a get that failed returns null, and a get that did not fail returns null
\* for a missing or empty item and the decoded value otherwise.
C20_StorageNeverThrows ==
  /\ ~slast.threw
  /\ (slast.op = "get" /\ slast.failed) => slast.value = Null
  /\ (slast.op = "get" /\ ~slast.failed) =>
        slast.value = IF slast.held.kind = "json" THEN slast.held.value ELSE Null

C20_Witness ==
  /\ slast.op = "get" /\ slast.failed /\ slast.held = Garbage
  /\ ~slast.threw /\ slast.value = Null

\* C27: a poll tick fetches the full list of the polled conversation; when
\* the response is handled the local list is replaced by the fetched list if
\* and only if the fetched list is longer than the local list is then;
\* otherwise, and when the fetch fails, the local list is unchanged.
C27_PollReplacesOnlyIfLonger ==
  [][/\ PollTick =>
          \E f \in fetches' \ fetches :
            f.kind = "poll" /\ f.conv = pollConv /\ f.n = Len(server[pollConv])
     /\ \A f \in fetches :
          PollApply(f) =>
            messages' = IF Len(Fetched(f)) > Len(messages)
                          THEN Fetched(f) ELSE messages
     /\ \A f \in fetches :
          (f.kind = "poll" /\ FetchFail(f)) => messages' = messages]_vars

C27_Witness ==
  /\ "pollDrop" \in seen /\ fetches = {}
  /\ pollConv # NoConv /\ messages = server[pollConv]

\* the order in which init reads the storage
InitOrder == <<"visitor", "conversation", "prechat_completed">>

\* the conversation entry is missing or cannot be parsed
NoUsableConversation == items["conversation"].kind # "json"

\* C26: init reads visitor, then conversation, then prechatCompleted; when the
\* conversation entry is missing or unparsable, the step of init that reads it
\* ends init with no session: the conversation stays null, no history fetch is
\* issued, no connection is requested, and there is no error.
C26_InitReadOrderAndNoSession ==
  [][/\ IsPrefix(initReads', InitOrder)
     /\ \A cfg \in Configs :
          (InitConfigOk(cfg) /\ NoUsableConversation)
            => /\ conversation' = NoConv /\ messages' = messages
               /\ initPc' = "done" /\ initHist' = -1 /\ fetches' = fetches
               /\ sockets' = sockets /\ ws' = ws /\ wlast' = wlast
               /\ error' = Null /\ isLoading' = FALSE
               /\ initReads' = InitOrder]_vars

\* C26 witness: init completed over an unparsable conversation entry, having
\* read the three keys, with no conversation and no error
C26_Witness ==
  /\ initPc = "done" /\ items["conversation"].kind = "garbage" /\ mode = "works"
  /\ initReads = InitOrder
  /\ conversation = NoConv /\ error = Null /\ ~isLoading /\ ws = 0

\* C22: with a persisted visitor and a persisted conversation, the step of
\* init that receives the fetched history ends init with the persisted
\* conversation as the session's conversation, the fetched history as the
\* message list, wsManager.connect called for that conversation id, the
\* persisted visitor as the session's visitor, and the pre-chat form not shown.
C22_InitResumesPersistedSession ==
  [][InitHistoryOk
       => /\ storedConv # NoConv /\ conversation' = storedConv
          /\ messages' = SubSeq(server[storedConv], 1, initHist)
          /\ wlast'.op = "connect" /\ wlast'.id = storedConv
          /\ ~needsPrechat' /\ ~FormShown' /\ ChatShown'
          /\ initPc' = "done" /\ ~isLoading'
          /\ (items["visitor"].kind = "json"
                => visitor' = items["visitor"].value)]_vars

\* C22 witness: init resumed the persisted conversation with a non-empty
\* history under a configuration that requires the pre-chat form, with no
\* pre-chat flag persisted
C22_Witness ==
  /\ initPc = "done" /\ conversation = SavedConv /\ messages = SavedHistory
  /\ wlast.op = "connect" /\ wlast.id = SavedConv /\ ws # 0
  /\ config = FormConfig /\ ~prechatCompleted /\ ChatShown
  /\ visitor = SavedVisitor /\ starts = {} /\ nStarts = 0

\* C23: given a persisted conversation, the step of init that handles the
\* failure of the history fetch removes the persisted conversation and ends
\* init as a fresh session: no conversation, an empty message list, no
\* connection requested, no error reported, pre-chat not marked completed.
C23_FetchFailureStartsFresh ==
  [][InitHistoryFail
       => /\ items'["conversation"].kind = "none"
          /\ conversation' = NoConv /\ messages' = <<>>
          /\ wlast' = wlast /\ sockets' = sockets /\ ws' = ws
          /\ error' = error /\ initPc' = "done" /\ ~isLoading'
          /\ prechatCompleted' = FALSE]_vars

\* the persisted visitor is readable
VisitorPersisted == items["visitor"].kind = "json"

SameIdentity(v, w) == v.id = w.id /\ v.createdAt = w.createdAt

\* the session has no visitor yet, or the one that is persisted
SessionVisitorPersisted ==
  \/ visitor = NoVisitor
  \/ VisitorPersisted /\ SameIdentity(visitor, items["visitor"].value)

\* C24: while storage works, a visitor is created only in a step that finds
\* none persisted, and every step other than clearVisitor keeps the id and
\* createdAt of the persisted visitor and of the session's visitor (which
\* stays the persisted one).
C24_VisitorUpdatedNeverReplaced ==
  [][mode = "works"
       => /\ gen' # gen => (~VisitorPersisted /\ gen' = gen + 1)
          /\ (VisitorPersisted /\ ~ClearVisitor)
               => /\ VisitorPersisted'
                  /\ SameIdentity(items'["visitor"].value, items["visitor"].value)
          /\ (SessionVisitorPersisted /\ ~ClearVisitor)
               => /\ SessionVisitorPersisted'
                  /\ visitor # NoVisitor => SameIdentity(visitor', visitor)]_vars

\* C24 witness: with working storage the visitor persisted by an earlier page
\* load went through init, identify and a startConversation that carried a
\* name, and is still the visitor of the session and of the storage
C24_Witness ==
  /\ mode = "works" /\ gen = 1 /\ initPc = "done"
  /\ nStarts = 1 /\ conversation # NoConv /\ starts = {}
  /\ visitor = [SavedVisitor EXCEPT !.name = "Ann"]
  /\ VisitorPersisted /\ items["visitor"].value = visitor

\* what C24 establishes for working storage, as far as the in-memory session
\* goes: the session's visitor keeps its id and createdAt, and a visitor is
\* generated only while the session has none
SessionVisitorKept ==
  /\ visitor # NoVisitor => SameIdentity(visitor', visitor)
  /\ gen' # gen => visitor = NoVisitor

\* C21: when every storage operation fails, init, identify, startConversation,
\* sendMessage and completePrechat leave the in-memory session as they do with
\* working storage, the visitor id included: every step keeps the identity of
\* the session's visitor.
C21_MemoryOnlySessionSameAsPersisted ==
  [][mode = "disabled" => SessionVisitorKept]_vars

\* C25: with no conversation in the session, sending a message starts the
\* creation of a conversation that carries the message, as submitting the
\* pre-chat form does: the step leaves a startConversation request with the
\* text in flight, or the text in the message list.
C25_FirstMessageCreatesConversation ==
  [][\A text \in Texts :
       (HandleSubmit(text) /\ conversation = NoConv)
         => \/ \E r \in starts' : r.initial = text
            \/ \E i \in DOMAIN messages' : messages'[i].text = text]_vars

\* a step of init or of startConversation (a part of the operation that runs
\* without awaiting)
PublishingStep ==
  \/ InitStart
  \/ \E cfg \in Configs : InitConfigOk(cfg)
  \/ InitConfigFail
  \/ InitHistoryOk
  \/ InitHistoryFail
  \/ \E r \in starts : StartOk(r)
  \/ \E r \in starts : StartFail(r)

\* the snapshot of the current state
Snapshot == Snap(conversation, isLoading, prechatCompleted)

\* C30: a step of a store operation is visible to subscribers atomically:
\* every snapshot they are notified with during the step is the state before
\* the step or the state after it, never one in which only part of the
\* step's fields are updated.
C30_NoPartialSnapshot ==
  [][PublishingStep
       => \A i \in DOMAIN observed' :
            observed'[i] = Snapshot \/ observed'[i] = Snapshot']_vars

\* the frames of sendTyping(isTyping) among those the last step sent
TypingFrames(isTyping) ==
  {i \in DOMAIN wire : wire[i].data = TypingFrame(isTyping)}

\* after the last input change (not submitted since): no typing timer fired
\* before 2 s have passed, exactly one once they have passed
OneStopAfterSilence ==
  lastInput >= 0
    => /\ clock < lastInput + TypingDelay => stops = 0
       /\ clock = lastInput + TypingDelay => stops <= 1
       /\ clock > lastInput + TypingDelay => stops = 1

\* C28: for a burst of input changes followed by silence, exactly one
\* typing_stop is sent, 2 s after the last change, and none between the
\* changes: the typing timer fires only 2 s after the last change, once, and
\* then hands one typing-stop frame to the open socket; an input change sends
\* no typing-stop frame.
C28_OneTypingStopAfterBurst ==
  [][/\ OneStopAfterSilence'
     /\ \A due \in typingTimers :
          (TypingTimerFire(due) /\ lastInput >= 0)
            => /\ clock = lastInput + TypingDelay
               /\ CurrentOpen => Cardinality(TypingFrames(FALSE)') = 1
     /\ HandleChange => TypingFrames(FALSE)' = {}]_vars

\* C28 witness: the third change of a burst was made at 900 ms, and at
\* 2900 ms the timer has fired once and a typing-stop frame went to the socket
C28_Witness ==
  /\ burst = 3 /\ lastInput = 9 /\ clock = 29 /\ stops = 1
  /\ typingTimers = {} /\ TypingFrames(FALSE) # {}

\* C29: within one burst of input changes typing_start is sent on the first
\* change only: a change made while the timer of the previous change is
\* pending sends no typing-start frame.
C29_TypingStartOncePerBurst ==
  [][(HandleChange /\ TimerPending) => TypingFrames(TRUE)' = {}]_vars

\* C39: after the visitor submits a message (which sends typing_stop) no
\* further typing_stop is sent until the input changes again: no typing timer
\* fires, and no typing-stop frame is sent, while the last input has been
\* submitted and not changed since.
C39_NoTypingStopAfterSubmit ==
  [][lastInput = -1
       => \A due \in typingTimers :
            TypingTimerFire(due) => TypingFrames(FALSE)' = {}]_vars

\* C37: in every reachable state of the manager the reconnect-attempt
\* counter lies in 0..maxReconnectAttempts and at most one reconnect timer is
\* pending, for every sequence of connect, disconnect, socket events and
\* timer firings.
C37_ReconnectCounterAndTimerBounded ==
  /\ reconnectAttempts \in 0..maxReconnectAttempts
  /\ Cardinality(timers) <= 1

\* C31: init, startConversation, sendMessage and loadMessages complete for
\* every outcome of their network and storage calls, none ending in a
\* rejection nobody handles: each resolution or rejection of a request ends
\* its operation (or moves init to its next request), and at that point
\* isLoading is false for init and startConversation and isSending is false
\* for sendMessage; a send without a conversation returns at once.
C31_OperationsAlwaysComplete ==
  [][/\ InitConfigFail => (initPc' = "done" /\ ~isLoading')
     /\ \A cfg \in Configs :
          InitConfigOk(cfg)
            => \/ initPc' = "history"
               \/ initPc' = "done" /\ ~isLoading'
     /\ (InitHistoryOk \/ InitHistoryFail) => (initPc' = "done" /\ ~isLoading')
     /\ \A r \in starts :
          (StartOk(r) \/ StartFail(r)) => (r \notin starts' /\ ~isLoading')
     /\ \A r \in sends :
          (SendOk(r) \/ SendFail(r)) => (r \notin sends' /\ ~isSending')
     /\ \A f \in fetches :
          (LoadApply(f) \/ FetchFail(f)) => f \notin fetches'
     /\ dropped' # dropped => (~isSending' /\ sends' = sends)]_vars

\* C31 witness: init has completed, a startConversation request was rejected
\* and the operation is over with isLoading false and the error set
C31_Witness ==
  /\ initPc = "done" /\ nStarts = 1 /\ starts = {}
  /\ error = "Failed to start conversation" /\ ~isLoading

\* C33: when the startConversation request fails the conversation and the
\* message list are unchanged, nothing is written to the durable store, no
\* connection and no polling are started, prechatCompleted is unchanged,
\* isLoading becomes false and error is set.
C33_FailedStartLeavesSessionUntouched ==
  [][\A r \in starts :
       StartFail(r)
         => /\ conversation' = conversation /\ messages' = messages
            /\ items' = items
            /\ UNCHANGED wsVars /\ pollConv' = pollConv
            /\ prechatCompleted' = prechatCompleted
            /\ ~isLoading' /\ error' # Null]_vars

\* C34: every send whose request succeeds is in the message list under its
\* server-issued id immediately after its confirmation is applied, whatever
\* poll refresh or loadMessages replaced the list while it was in flight.
C34_ConfirmedSendPresent ==
  [][\A r \in sends : SendOk(r) => r.srv \in Ids(messages')]_vars

\* C38: isSending is true exactly while at least one send request is in
\* flight; with two overlapping sendMessage calls it stays true until the
\* later of the two requests settles.
C38_IsSendingWhileInFlight ==
  isSending <=> sends # {}

\* the manager holds a socket that is connecting or open
HoldsSocket == ws # 0 /\ sockets[ws].state \in {"connecting", "open"}

\* C35: whenever the manager holds a socket (connecting or open), the
\* conversation id it is connected for is the id of the session's current
\* conversation, for every interleaving of init, startConversation and the
\* socket events.
C35_SocketIsForCurrentConversation ==
  HoldsSocket => (conversationId = conversation /\ sockets[ws].conv = conversation)

\* the number of times cmd occurs in cmds
Times(cmds, cmd) == Cardinality({i \in DOMAIN cmds : cmds[i] = cmd})

\* the commands of cmds that are in among, in the order of cmds
RECURSIVE Restrict(_, _)
Restrict(cmds, among) ==
  IF cmds = <<>> THEN <<>>
  ELSE IF Head(cmds) \in among THEN <<Head(cmds)>> \o Restrict(Tail(cmds), among)
  ELSE Restrict(Tail(cmds), among)

\* the commands the stub queued
Queued == {omniQ[i] : i \in DOMAIN omniQ}

\* C32: the commands issued through the snippet's stub before loader.js has
\* run (queued in omni.q) are executed by the loader once it has run, each
\* exactly once and in the order issued: once the loader has run every queued
\* init has been executed, every other queued command has been executed or
\* waits for the widget bundle, none was executed twice, and the queued
\* commands executed so far were executed in the order issued.
C32_QueuedCommandsExecutedInOrder ==
  omni = "loader"
    => /\ \A cmd \in Queued :
            /\ Times(executed, cmd) <= 1
            /\ cmd.method = "init" => Times(executed, cmd) = 1
            /\ cmd.method # "init"
                 => \/ Times(executed, cmd) = 1
                    \/ ~isLoaded /\ Times(pendingCommands, cmd) >= 1
       /\ IsPrefix(Restrict(executed, Queued),
                   Restrict(omniQ, {executed[i] : i \in DOMAIN executed}))

\* the persisted visitor
storedVisitor == items["visitor"].value

\* the fields of the stored visitor that `data` does not supply are kept
UnsuppliedKept(data) ==
  /\ VisitorPersisted'
  /\ SameIdentity(storedVisitor', storedVisitor)
  /\ data.name \in {Absent, Null} => storedVisitor'.name = storedVisitor.name
  /\ data.email \in {Absent, Null} => storedVisitor'.email = storedVisitor.email

\* C40: identification merges into the stored visitor: after the SDK's
\* identify(data), or a startConversation that carries a name or an e-mail,
\* every visitor field the data does not supply keeps the value it had, and
\* the session's in-memory visitor equals the persisted visitor (storage
\* working, a visitor persisted, the session holding it).
C40_IdentifyMergesIntoStoredVisitor ==
  [][(mode = "works" /\ VisitorPersisted /\ visitor = storedVisitor)
       => /\ \A data \in IdentifyData :
               Identify(data) => (UnsuppliedKept(data) /\ visitor' = storedVisitor')
          /\ \A r \in starts :
               (StartOk(r) /\ (r.name # Null \/ r.email # Null))
                 => (UnsuppliedKept(r) /\ visitor' = storedVisitor')]_vars

\* C36: at most one poll interval is active at any time (the model keeps
\* the interval in pollConv, as the code keeps it in pollingInterval), and a
\* poll response fetched for a conversation that is no longer the session's
\* current conversation is never applied to the message list.
C36_StalePollNeverApplied ==
  [][\A f \in fetches :
       (PollApply(f) /\ messages' # messages) => f.conv = conversation]_vars

====
